---- MODULE Spec2Model ----
(***************************************************************************)
(* dim-mod-sim: the seeded random source, the shop configuration           *)
(* generator, the event simulation, the schema parser and the schema       *)
(* evaluator, as state machines.                                           *)
(*                                                                         *)
(* Random draws are per-mille samples u \in 0..999 of the unit interval    *)
(* [0, 1): a probability p is the integer 1000 * p, random() < p is u < p. *)
(***************************************************************************)
EXTENDS Integers, Sequences, FiniteSets, TLC

VARIABLES
    hashKey,     \* per interpreter process: the key of its string hash
    adversary,   \* the namespace whose draws are unconstrained ("none": all seeded)
    gen,         \* per process: the running ShopGenerator (seed, difficulty, pc, sub-configs)
    rngs,        \* SeededRandom objects of the fork scenario: name -> [seed, pos] or NoRng
    drawn,       \* values drawn so far from each object of the fork scenario
    sim,         \* per process: the running EventGenerator (world state, emitters, generate()'s locals)
    ev,          \* the SchemaEvaluator scenario: configuration, submission, results of its calls
    doc          \* the parse_schema scenario: the document and the outcome

vars == <<hashKey, adversary, gen, rngs, drawn, sim, ev, doc>>

(***************************************************************************)
(* Bounds                                                                  *)
(***************************************************************************)
\* seeds handed to a generator are 0..MaxSeed
MaxSeed == 2
\* string-hash keys an interpreter process can start with are 0..MaxHashKey
MaxHashKey == 1
\* width in bits kept of a hash (the code keeps 32)
HashBits == 5
\* draws taken from one SeededRandom object in the fork scenario
MaxDraws == 3
\* master data of a simulated world (initialize_world_state defaults to 50, 5, 10)
NumProducts == 3
NumStores == 2
NumPromotions == 3

Procs == {1, 2}
\* a subsystem no scenario of the running specification uses
Idle == [pc |-> "idle"]
Seeds == 0..MaxSeed
HashKeys == 0..MaxHashKey
\* the samples of [0, 1) an unconstrained draw ranges over
USamples == {0, 150, 500, 850, 999}

(***************************************************************************)
(* core/random.py                                                          *)
(***************************************************************************)
\* 2^n
RECURSIVE Pow2(_)
Pow2(n) == IF n = 0 THEN 1 ELSE 2 * Pow2(n - 1)

\* 0xFFFFFFFF, at the model's hash width
HashMask == Pow2(HashBits) - 1

\* the content of a namespace string, as a number
NsCode(ns) ==
    CASE ns = "shop_name" -> 1 [] ns = "transactions" -> 2 [] ns = "time" -> 3
      [] ns = "products" -> 4 [] ns = "customers" -> 5 [] ns = "stores" -> 6
      [] ns = "promotions" -> 7 [] ns = "returns" -> 8 [] ns = "inventory" -> 9
      [] ns = "world" -> 10 [] ns = "sales" -> 11 [] ns = "voids" -> 12
      [] ns = "corrections" -> 13 [] ns = "A" -> 14 [] ns = "B" -> 15
      [] ns = "sale" -> 16 [] ns = "return" -> 17 [] ns = "void" -> 18
      [] ns = "correction" -> 19 [] ns = "inventory_adjustment" -> 20
      [] ns = "inventory_snapshot" -> 21 [] ns = "product_change" -> 22
      [] ns = "store_change" -> 23

\* hash(str): keyed by the process's hash key (PYTHONHASHSEED, random by default)
StrHash(key, ns) == ((NsCode(ns) * ((2 * key) + 3)) + (key * 11)) % 64

\* hash((seed, namespace)): the tuple hash mixes hash(seed) = seed and hash(namespace)
TupleHash(key, seed, ns) == (seed * 31) + (StrHash(key, ns) * 17) + 7

\* SeededRandom(seed): a generator at the start of its stream
SeededRandom(seed) == [seed |-> seed, pos |-> 0]

\* the i-th output of the stream of a generator seeded `seed`, per-mille
U(seed, i) ==
    LET x == ((seed * 131) + (i * 7) + 29) % 10007
        y == ((x * x) + i) % 10007
        z == ((y * 3571) + (seed * 17) + x) % 10007
    IN  z % 1000

\* fork as a bug would write it: the child is seeded from the parent's next draw
ForkFromStream(key, rng, namespace) == SeededRandom(U(rng.seed, rng.pos + 1) % (HashMask + 1))

\* SeededRandom.fork: child_seed = hash((self.seed, namespace)) & 0xFFFFFFFF
fork(key, rng, namespace) == SeededRandom(TupleHash(key, rng.seed, namespace) % (HashMask + 1))

\* boolean(true_probability): random() < true_probability
boolean(u, true_probability) == u < true_probability

\* choice(seq): an index below len(seq)
choice(u, seq) == seq[1 + (u * Len(seq)) \div 1000]

\* integer(min_val, max_val): randint
integer(u, min_val, max_val) == min_val + (u * (max_val - min_val + 1)) \div 1000

RECURSIVE SumSeq(_)
SumSeq(s) == IF s = <<>> THEN 0 ELSE Head(s) + SumSeq(Tail(s))

\* weighted_choice: random.choices(options, weights, k=1)[0], i.e.
\* options[bisect(cum_weights, random() * total, 0, n - 1)]
weighted_choice(u, options, weights) ==
    LET n == Len(options)
        total == SumSeq(weights)
        cum(k) == SumSeq(SubSeq(weights, 1, k))
        idx == Cardinality({k \in 1..(n - 1) : cum(k) * 1000 <= u * total})
    IN  options[idx + 1]

(***************************************************************************)
(* shop/generator.py, shop/config.py                                       *)
(***************************************************************************)
Difficulties == {"easy", "medium", "hard", "adversarial"}
CfgNamespaces == <<"shop_name", "transactions", "time", "products", "customers",
                   "stores", "promotions", "returns", "inventory">>
NoCfg == [unset |-> TRUE]
None == "None"

\* index of a shop-name component; the name is prefix + " " + suffix
SHOP_NAME_PREFIXES == <<1, 2, 3, 4, 5, 6, 7, 8, 9, 10, 11, 12, 13, 14, 15, 16>>
SHOP_NAME_SUFFIXES == <<1, 2, 3, 4, 5, 6, 7, 8, 9, 10, 11, 12, 13, 14, 15, 16>>

\* DIFFICULTY_WEIGHTS[difficulty][key]: <<options, weights>> in the table's key order
DIFFICULTY_WEIGHTS(d, key) ==
    CASE key = "transaction_grain" ->
           << <<"line_item_level", "receipt_level", "mixed">>,
              CASE d = "easy" -> <<900, 100, 0>> [] d = "medium" -> <<600, 200, 200>>
                [] d = "hard" -> <<300, 300, 400>> [] d = "adversarial" -> <<100, 200, 700>> >>
      [] key = "timestamp_relation" ->
           << <<"same", "different">>,
              CASE d = "easy" -> <<900, 100>> [] d = "medium" -> <<500, 500>>
                [] d = "hard" -> <<200, 800>> [] d = "adversarial" -> <<100, 900>> >>
      [] key = "hierarchy_changes" ->
           << <<"none", "occasional", "frequent">>,
              CASE d = "easy" -> <<800, 200, 0>> [] d = "medium" -> <<400, 400, 200>>
                [] d = "hard" -> <<100, 300, 600>> [] d = "adversarial" -> <<0, 200, 800>> >>
      [] key = "customer_reliability" ->
           << <<"reliable", "unreliable", "absent">>,
              CASE d = "easy" -> <<800, 100, 100>> [] d = "medium" -> <<500, 300, 200>>
                [] d = "hard" -> <<200, 500, 300>> [] d = "adversarial" -> <<100, 600, 300>> >>
      [] key = "returns_reference" ->
           << <<"always", "sometimes", "never">>,
              CASE d = "easy" -> <<800, 100, 100>> [] d = "medium" -> <<400, 400, 200>>
                [] d = "hard" -> <<200, 500, 300>> [] d = "adversarial" -> <<100, 600, 300>> >>
      [] key = "returns_pricing" ->
           << <<"original_price", "current_price", "arbitrary_override">>,
              CASE d = "easy" -> <<900, 100, 0>> [] d = "medium" -> <<500, 300, 200>>
                [] d = "hard" -> <<200, 300, 500>> [] d = "adversarial" -> <<100, 200, 700>> >>
      [] key = "promotions_per_item" ->
           << <<"one", "many">>,
              CASE d = "easy" -> <<900, 100>> [] d = "medium" -> <<500, 500>>
                [] d = "hard" -> <<200, 800>> [] d = "adversarial" -> <<100, 900>> >>
      [] key = "inventory_type" ->
           << <<"transactional", "periodic_snapshot", "both">>,
              CASE d = "easy" -> <<800, 200, 0>> [] d = "medium" -> <<400, 400, 200>>
                [] d = "hard" -> <<200, 200, 600>> [] d = "adversarial" -> <<100, 100, 800>> >>

\* DIFFICULTY_WEIGHTS[difficulty]["boolean_true_prob"]
boolean_true_prob(d) ==
    CASE d = "easy" -> 300 [] d = "medium" -> 500 [] d = "hard" -> 700 [] d = "adversarial" -> 850

\* prob * (tenths / 10)
Scaled(prob, tenths) == (prob * tenths) \div 10

\* ShopGenerator._weighted_enum_choice
weighted_enum_choice(u, d, weight_key) ==
    weighted_choice(u, DIFFICULTY_WEIGHTS(d, weight_key)[1], DIFFICULTY_WEIGHTS(d, weight_key)[2])

\* ShopGenerator._generate_shop_name
generate_shop_name(us, d) ==
    [prefix |-> choice(us[1], SHOP_NAME_PREFIXES), suffix |-> choice(us[2], SHOP_NAME_SUFFIXES)]

\* ShopGenerator._generate_transactions
generate_transactions(us, d) ==
    LET prob == boolean_true_prob(d)
    IN  [grain |-> weighted_enum_choice(us[1], d, "transaction_grain"),
         multiple_payments |-> boolean(us[2], prob),
         voids_enabled |-> boolean(us[3], prob),
         manual_overrides |-> boolean(us[4], Scaled(prob, 7))]

\* ShopGenerator._generate_time
generate_time(us, d) ==
    LET prob == boolean_true_prob(d)
    IN  [timestamp_business_date_relation |-> weighted_enum_choice(us[1], d, "timestamp_relation"),
         late_arriving_events |-> boolean(us[2], prob),
         backdated_corrections |-> boolean(us[3], Scaled(prob, 6))]

\* ShopGenerator._generate_products
generate_products(us, d) ==
    LET prob == boolean_true_prob(d)
    IN  [sku_reuse |-> boolean(us[2], Scaled(prob, 5)),
         hierarchy_change_frequency |-> weighted_enum_choice(us[1], d, "hierarchy_changes"),
         bundled_products |-> boolean(us[3], Scaled(prob, 6)),
         virtual_products |-> boolean(us[4], Scaled(prob, 7))]

\* _generate_customers as a bug would write it: household grouping drawn
\* whatever the reliability
generate_customers_ungated(us, d) ==
    LET prob == boolean_true_prob(d)
    IN  [anonymous_allowed |-> boolean(us[3], prob),
         customer_id_reliability |-> weighted_enum_choice(us[1], d, "customer_reliability"),
         household_grouping |-> boolean(us[2], Scaled(prob, 5))]

\* ShopGenerator._generate_customers; `and` draws only when its left side is true
generate_customers(us, d) ==
    LET prob == boolean_true_prob(d)
        reliability == weighted_enum_choice(us[1], d, "customer_reliability")
        can_have_households == reliability # "absent"
        household_grouping == can_have_households /\ boolean(us[2], Scaled(prob, 5))
        k == IF can_have_households THEN 2 ELSE 1
    IN  [anonymous_allowed |-> boolean(us[k + 1], prob),
         customer_id_reliability |-> reliability,
         household_grouping |-> household_grouping]

\* ShopGenerator._generate_stores
generate_stores(us, d) ==
    LET prob == boolean_true_prob(d)
        physical0 == boolean(us[1], prob)
        online0 == boolean(us[2], prob)
        forced == ~physical0 /\ ~online0
        physical == IF forced THEN boolean(us[3], 500) ELSE physical0
        online == IF forced THEN ~boolean(us[3], 500) ELSE online0
        k == IF forced THEN 3 ELSE 2
        cross_store == physical /\ boolean(us[k + 1], Scaled(prob, 6))
        k2 == IF physical THEN k + 1 ELSE k
    IN  [physical_stores |-> physical,
         online_channel |-> online,
         cross_store_returns |-> cross_store,
         store_lifecycle_changes |-> boolean(us[k2 + 1], Scaled(prob, 4))]

\* ShopGenerator._generate_promotions
generate_promotions(us, d) ==
    LET prob == boolean_true_prob(d)
        per_item == weighted_enum_choice(us[1], d, "promotions_per_item")
        can_stack == per_item = "many"
        stackable == can_stack /\ boolean(us[2], prob)
        k == IF can_stack THEN 2 ELSE 1
    IN  [promotions_per_line_item |-> per_item,
         stackable_promotions |-> stackable,
         basket_level_promotions |-> boolean(us[k + 1], prob),
         post_transaction_promotions |-> boolean(us[k + 2], Scaled(prob, 4))]

\* ShopGenerator._generate_returns
generate_returns(us, d) ==
    [reference_policy |-> weighted_enum_choice(us[1], d, "returns_reference"),
     pricing_policy |-> weighted_enum_choice(us[2], d, "returns_pricing")]

\* ShopGenerator._generate_inventory
generate_inventory(us, d) ==
    LET prob == boolean_true_prob(d)
        tracked == boolean(us[1], prob)
    IN  [tracked |-> tracked,
         inventory_type |-> IF tracked THEN weighted_enum_choice(us[2], d, "inventory_type") ELSE None]

\* CustomerConfig.validate_household_grouping
validate_household_grouping(c) ==
    ~(c.household_grouping /\ c.customer_id_reliability = "absent")

\* StoreConfig.validate_channels
validate_channels(c) == ~(~c.physical_stores /\ ~c.online_channel)

\* StoreConfig.validate_cross_store_returns
validate_cross_store_returns(c) == ~(c.cross_store_returns /\ ~c.physical_stores)

\* PromotionConfig.validate_stackable
validate_stackable(c) == ~(c.stackable_promotions /\ c.promotions_per_line_item = "one")

\* InventoryConfig.validate_inventory_type
validate_inventory_type(c) ==
    /\ ~(c.tracked /\ c.inventory_type = None)
    /\ ~(~c.tracked /\ c.inventory_type # None)

\* the model validators a sub-config's constructor runs
ModelValid(ns, c) ==
    CASE ns = "customers" -> validate_household_grouping(c)
      [] ns = "stores" -> validate_channels(c) /\ validate_cross_store_returns(c)
      [] ns = "promotions" -> validate_stackable(c)
      [] ns = "inventory" -> validate_inventory_type(c)
      [] OTHER -> TRUE

\* the most draws a section takes
MaxSectionDraws(ns) ==
    CASE ns = "shop_name" -> 2 [] ns = "transactions" -> 4 [] ns = "time" -> 3
      [] ns = "products" -> 4 [] ns = "customers" -> 3 [] ns = "stores" -> 5
      [] ns = "promotions" -> 4 [] ns = "returns" -> 2 [] ns = "inventory" -> 2

\* the draws rng.fork(ns) of process p's generator yields: its seeded stream,
\* or any samples when ns is the adversary's namespace
SectionDraws(p, ns) ==
    IF adversary = ns
    THEN [1..MaxSectionDraws(ns) -> USamples]
    ELSE {[i \in 1..MaxSectionDraws(ns) |->
             U(fork(hashKey[p], SeededRandom(gen[p].seed), ns).seed, i)]}

\* ShopGenerator.__init__
ShopGenerator(seed, difficulty) ==
    [seed |-> seed, difficulty |-> difficulty, pc |-> "shop_name",
     shop_name |-> NoCfg, transactions |-> NoCfg, time |-> NoCfg, products |-> NoCfg,
     customers |-> NoCfg, stores |-> NoCfg, promotions |-> NoCfg, returns |-> NoCfg,
     inventory |-> NoCfg]

NextSection(ns) ==
    CASE ns = "shop_name" -> "transactions" [] ns = "transactions" -> "time"
      [] ns = "time" -> "products" [] ns = "products" -> "customers"
      [] ns = "customers" -> "stores" [] ns = "stores" -> "promotions"
      [] ns = "promotions" -> "returns" [] ns = "returns" -> "inventory"
      [] ns = "inventory" -> "construct"

\* one statement of ShopGenerator.generate: the section is generated, its
\* constructor validates it, and a validation error ends the call
SectionStep(p, ns, c) ==
    /\ gen[p].pc = ns
    /\ gen' = [gen EXCEPT ![p] =
                 IF ModelValid(ns, c)
                 THEN [[gen[p] EXCEPT ![ns] = c] EXCEPT !.pc = NextSection(ns)]
                 ELSE [gen[p] EXCEPT !.pc = "error"]]
    /\ UNCHANGED <<hashKey, adversary, rngs, drawn, sim, ev, doc>>

GenShopName(p) ==
    \E us \in SectionDraws(p, "shop_name") :
        SectionStep(p, "shop_name", generate_shop_name(us, gen[p].difficulty))
GenTransactions(p) ==
    \E us \in SectionDraws(p, "transactions") :
        SectionStep(p, "transactions", generate_transactions(us, gen[p].difficulty))
GenTime(p) ==
    \E us \in SectionDraws(p, "time") :
        SectionStep(p, "time", generate_time(us, gen[p].difficulty))
GenProducts(p) ==
    \E us \in SectionDraws(p, "products") :
        SectionStep(p, "products", generate_products(us, gen[p].difficulty))
GenCustomers(p) ==
    \E us \in SectionDraws(p, "customers") :
        SectionStep(p, "customers", generate_customers(us, gen[p].difficulty))
GenStores(p) ==
    \E us \in SectionDraws(p, "stores") :
        SectionStep(p, "stores", generate_stores(us, gen[p].difficulty))
GenPromotions(p) ==
    \E us \in SectionDraws(p, "promotions") :
        SectionStep(p, "promotions", generate_promotions(us, gen[p].difficulty))
GenReturns(p) ==
    \E us \in SectionDraws(p, "returns") :
        SectionStep(p, "returns", generate_returns(us, gen[p].difficulty))
GenInventory(p) ==
    \E us \in SectionDraws(p, "inventory") :
        SectionStep(p, "inventory", generate_inventory(us, gen[p].difficulty))

\* ShopGenerator.generate, its return: ShopConfiguration(seed=..., ...)
Construct(p) ==
    /\ gen[p].pc = "construct"
    /\ gen' = [gen EXCEPT ![p].pc = "done"]
    /\ UNCHANGED <<hashKey, adversary, rngs, drawn, sim, ev, doc>>

\* the ShopConfiguration a finished generate() returned
ShopConfiguration(g) ==
    [seed |-> g.seed, shop_name |-> g.shop_name, transactions |-> g.transactions,
     time |-> g.time, products |-> g.products, customers |-> g.customers,
     stores |-> g.stores, promotions |-> g.promotions, returns |-> g.returns,
     inventory |-> g.inventory]

NoRng == [none |-> TRUE]
IdleRngs == [n \in {"parent", "A", "B"} |-> NoRng]
IdleDrawn == [n \in {"parent", "A", "B", "atForkA", "atForkB"} |-> <<>>]
IdleGen == [p \in Procs |-> [ShopGenerator(0, "easy") EXCEPT !.pc = "idle"]]

\* two interpreter processes run ShopGenerator(seed, difficulty).generate() on
\* the same arguments, or one process runs it against an adversary's draws
InitCfg ==
    /\ adversary \in {"none"} \cup {CfgNamespaces[i] : i \in 1..Len(CfgNamespaces)}
    /\ hashKey \in [Procs -> HashKeys]
    /\ adversary # "none" => hashKey[2] = hashKey[1]
    /\ \E seed \in Seeds, d \in Difficulties :
          gen = [p \in Procs |->
                   IF p = 1 \/ adversary = "none"
                   THEN ShopGenerator(seed, d)
                   ELSE [ShopGenerator(seed, d) EXCEPT !.pc = "idle"]]
    /\ rngs = IdleRngs
    /\ drawn = IdleDrawn
    /\ sim = [p \in Procs |-> Idle]
    /\ ev = Idle
    /\ doc = Idle

NextCfg ==
    \E p \in Procs :
        \/ GenShopName(p)
        \/ GenTransactions(p)
        \/ GenTime(p)
        \/ GenProducts(p)
        \/ GenCustomers(p)
        \/ GenStores(p)
        \/ GenPromotions(p)
        \/ GenReturns(p)
        \/ GenInventory(p)
        \/ Construct(p)

SpecCfg == InitCfg /\ [][NextCfg]_vars

\* C2: two independent ShopGenerator(seed, difficulty).generate() runs on the
\* same seed and difficulty return field-for-field identical configurations
C2_SameConfiguration ==
    (adversary = "none" /\ gen[1].pc = "done" /\ gen[2].pc = "done")
        => ShopConfiguration(gen[1]) = ShopConfiguration(gen[2])

\* the cross-field invariants of a configuration
CrossFieldInvariants(c) ==
    /\ c.customers.household_grouping => c.customers.customer_id_reliability # "absent"
    /\ c.stores.cross_store_returns => c.stores.physical_stores
    /\ c.stores.physical_stores \/ c.stores.online_channel
    /\ (c.inventory.inventory_type # None) <=> c.inventory.tracked
    /\ c.promotions.stackable_promotions => c.promotions.promotions_per_line_item = "many"

\* C4: whatever the draws, generate() never fails with a validation error and
\* the configuration it returns satisfies every cross-field invariant
C4_InvariantClosure ==
    \A p \in Procs :
        /\ gen[p].pc # "error"
        /\ gen[p].pc = "done" => CrossFieldInvariants(ShopConfiguration(gen[p]))

\* C4 witness: against adversarial draws a configuration without customer ids
\* (where household grouping had to be suppressed) was returned
C4_Witness ==
    /\ adversary = "customers"
    /\ gen[1].pc = "done"
    /\ gen[1].customers.customer_id_reliability = "absent"
    /\ gen[1].customers.anonymous_allowed

(***************************************************************************)
(* core/random.py: a parent generator, its forks "A" and "B", and draws    *)
(* from the three in any order                                             *)
(***************************************************************************)
InitRng ==
    /\ adversary = "none"
    /\ hashKey \in [Procs -> HashKeys]
    /\ hashKey[2] = hashKey[1]
    /\ gen = IdleGen
    /\ \E seed \in Seeds : rngs = [IdleRngs EXCEPT !["parent"] = SeededRandom(seed)]
    /\ drawn = IdleDrawn
    /\ sim = [p \in Procs |-> Idle]
    /\ ev = Idle
    /\ doc = Idle

\* rng.random() and the methods built on it: the next output of the object's stream
Draw(n) ==
    /\ rngs[n] # NoRng
    /\ rngs[n].pos < MaxDraws
    /\ rngs' = [rngs EXCEPT ![n].pos = @ + 1]
    /\ drawn' = [drawn EXCEPT ![n] = Append(@, U(rngs[n].seed, rngs[n].pos + 1))]
    /\ UNCHANGED <<hashKey, adversary, gen, sim, ev, doc>>

\* child = parent.fork(ns); the positions of the existing objects at that
\* moment are noted
Fork(ns) ==
    /\ rngs[ns] = NoRng
    /\ rngs' = [rngs EXCEPT ![ns] = fork(hashKey[1], rngs["parent"], ns)]
    /\ drawn' = [drawn EXCEPT !["atFork" \o ns] =
                    <<rngs["parent"].pos, IF rngs["A"] = NoRng THEN 0 ELSE rngs["A"].pos>>]
    /\ UNCHANGED <<hashKey, adversary, gen, sim, ev, doc>>

NextRng ==
    \/ \E n \in {"parent", "A", "B"} : Draw(n)
    \/ \E ns \in {"A", "B"} : Fork(ns)

SpecRng == InitRng /\ [][NextRng]_vars

\* the first k outputs of a generator seeded `seed`
Stream(seed, k) == [i \in 1..k |-> U(seed, i)]

\* C3: the values drawn from fork("B") are those of the child of an untouched
\* parent whatever was drawn from the parent or from fork("A") before or
\* after; and forking left the parent's position at its own number of draws
\* and its sequence its own
C3_NamespaceIsolation ==
    /\ \A ns \in {"A", "B"} :
          rngs[ns] # NoRng =>
             /\ rngs[ns].pos = Len(drawn[ns])
             /\ drawn[ns] = Stream(fork(hashKey[1], SeededRandom(rngs["parent"].seed), ns).seed,
                                   Len(drawn[ns]))
    /\ rngs["parent"].pos = Len(drawn["parent"])
    /\ drawn["parent"] = Stream(rngs["parent"].seed, Len(drawn["parent"]))

\* C3 witness: "B" was forked after draws from both the parent and "A", and
\* was then drawn from to the bound, with more parent draws in between
C3_Witness ==
    /\ rngs["B"] # NoRng
    /\ drawn["atForkB"] # <<>>
    /\ drawn["atForkB"][1] >= 1
    /\ drawn["atForkB"][2] >= 1
    /\ Len(drawn["B"]) = MaxDraws
    /\ Len(drawn["parent"]) > drawn["atForkB"][1]

(***************************************************************************)
(* events/state.py: the simulated world                                    *)
(***************************************************************************)
Min(a, b) == IF a < b THEN a ELSE b
Max(a, b) == IF a > b THEN a ELSE b

\* [1, ..., n]
Range(n) == [i \in 1..n |-> i]

\* rng.sample(pool, k): one draw per pick, the picked slot refilled from the tail
RECURSIVE sample(_, _)
sample(pool, us) ==
    IF us = <<>> THEN <<>>
    ELSE LET n == Len(pool)
             j == 1 + (Head(us) * n) \div 1000
         IN  <<pool[j]>> \o sample([k \in 1..(n - 1) |-> IF k = j THEN pool[n] ELSE pool[k]],
                                   Tail(us))

\* the next k draws of the stream seeded r, after position pos
Draws(r, pos, k) == [i \in 1..k |-> U(r, pos + i)]

\* initialize_world_state, its product loop from product idx on (idx = i + 1);
\* bundle_components keeps only whether the product has components
RECURSIVE init_products(_, _, _, _)
init_products(config, r, pos, idx) ==
    IF idx > NumProducts THEN <<>>
    ELSE LET virt == config.products.virtual_products
             bund == config.products.bundled_products
             p1 == pos + 1 + (IF virt THEN 1 ELSE 0)
             p2 == p1 + (IF bund THEN 1 ELSE 0)
             is_bundle == bund /\ boolean(U(r, p2), 50)
             has_components == is_bundle /\ idx - 1 > 2
             num_components == integer(U(r, p2 + 1), 2, Min(3, idx - 1))
             p3 == IF has_components THEN p2 + 1 + num_components ELSE p2
         IN  <<[sku |-> idx,
                category_hierarchy |-> choice(U(r, pos + 1), Range(9)),
                current_price_cents |-> integer(U(r, p3 + 1), 100, 10000),
                is_virtual |-> virt /\ boolean(U(r, p1), 100),
                bundle_components |-> has_components]>>
             \o init_products(config, r, p3 + 1, idx + 1)

\* initialize_world_state, its promotion loop from promotion idx on;
\* applicable_skus is a set of skus, all_skus says it is None (all products)
RECURSIVE init_promotions(_, _, _, _)
init_promotions(config, r, pos, idx) ==
    IF idx > NumPromotions THEN <<>>
    ELSE LET bask == config.promotions.basket_level_promotions
             stack == config.promotions.stackable_promotions
             p1 == pos + (IF bask THEN 1 ELSE 0)
             is_basket == bask /\ boolean(U(r, p1), 300)
             p2 == p1 + (IF stack THEN 1 ELSE 0)
             p3 == p2 + (IF is_basket THEN 0 ELSE 1)
             restricted == ~is_basket /\ boolean(U(r, p3), 700)
             num_skus == integer(U(r, p3 + 1), 1, Min(10, NumProducts))
             picked == sample(Range(NumProducts), Draws(r, p3 + 1, num_skus))
             p4 == IF restricted THEN p3 + 1 + num_skus ELSE p3
         IN  <<[promotion_code |-> idx,
                discount_type |-> choice(U(r, p4 + 1), <<"percent", "fixed", "bogo">>),
                discount_value |-> integer(U(r, p4 + 2), 5, 50),
                applicable_skus |-> IF restricted
                                    THEN {picked[k] : k \in 1..num_skus} ELSE {},
                all_skus |-> ~restricted,
                is_basket_level |-> is_basket,
                is_stackable |-> stack /\ boolean(U(r, p2), 400)]>>
             \o init_promotions(config, r, p4 + 3, idx + 1)

\* EventGenerator._create_emitters: the emitters in invocation order
create_emitters(config) ==
    <<"sales">>
    \o (IF config.returns.reference_policy # "never" THEN <<"returns">> ELSE <<>>)
    \o (IF config.transactions.voids_enabled THEN <<"voids">> ELSE <<>>)
    \o (IF config.time.backdated_corrections THEN <<"corrections">> ELSE <<>>)
    \o (IF config.inventory.tracked THEN <<"inventory">> ELSE <<>>)

\* EventGenerator.__init__ in a process whose hash key is `key`: the forked
\* generators (by seed and position) and initialize_world_state's world.
\* Timestamps are minutes since 2024-01-01 00:00, dates are days since then;
\* a store is its number, 0 for "ONLINE"; customers, households, events and
\* transactions are numbered from 1, and 0 stands for None; the date None is -1
EventGenerator(config, seed, key) ==
    LET root == SeededRandom(seed)
        world == fork(key, root, "world")
        stores == (IF config.stores.physical_stores THEN Range(NumStores) ELSE <<>>)
                  \o (IF config.stores.online_channel THEN <<0>> ELSE <<>>)
        tracked == config.inventory.tracked
    IN  [pc |-> "ready", config |-> config, seed |-> seed,
         rng |-> [ns \in {"root", "world", "sales", "returns", "voids", "corrections",
                          "inventory"} |->
                    IF ns = "root" THEN seed
                    ELSE IF ns = "world" THEN world.seed
                    ELSE fork(key, root, ns).seed],
         pos |-> [ns \in {"root", "world", "sales", "returns", "voids", "corrections",
                          "inventory"} |->
                    IF ns = "world" /\ tracked THEN Len(stores) * NumProducts ELSE 0],
         emitters |-> create_emitters(config),
         current_timestamp |-> 9 * 60, current_business_date |-> 0,
         products |-> init_products(config, fork(key, world, "products").seed, 0, 1),
         stores |-> stores,
         customers |-> <<>>,
         promotions |-> init_promotions(config, fork(key, world, "promotions").seed, 0, 1),
         inventory |-> IF tracked
                       THEN [x \in {<<stores[i], sku>> : i \in 1..Len(stores), sku \in 1..NumProducts} |->
                               LET i == CHOOSE i \in 1..Len(stores) : stores[i] = x[1]
                               IN  integer(U(world.seed, (i - 1) * NumProducts + x[2]), 50, 200)]
                       ELSE <<>>,
         transaction_history |-> <<>>, voided_events |-> {},
         event_sequence |-> 0, transaction_sequence |-> 0,
         last_snapshot_date |-> -1,
         num_events |-> 0, simulation_days |-> 0,
         events |-> <<>>, days_simulated |-> 0, business_date |-> 0, tick_minutes |-> 0,
         ret |-> 0, log |-> <<>>]

\* WorldState.update_inventory
update_inventory(s, store_id, sku, quantity_change) ==
    IF ~s.config.inventory.tracked THEN s
    ELSE [s EXCEPT !.inventory =
            IF <<store_id, sku>> \in DOMAIN @
            THEN [@ EXCEPT ![<<store_id, sku>>] = @ + quantity_change]
            ELSE @ @@ (<<store_id, sku>> :> 100 + quantity_change)]

\* update_inventory for each line item in turn, sign = -1 for a sale
RECURSIVE update_inventory_items(_, _, _, _)
update_inventory_items(s, store_id, items, sign) ==
    IF items = <<>> THEN s
    ELSE update_inventory_items(
             update_inventory(s, store_id, Head(items).sku, sign * Head(items).quantity),
             store_id, Tail(items), sign)

\* the k-th element (from 0) in the iteration order of a set of strings'
\* numbers, which the process's hash key decides
SetItem(key, S, k) ==
    LET rank == (k + key) % Cardinality(S)
    IN  CHOOSE x \in S : Cardinality({y \in S : y < x}) = rank

\* WorldState.get_or_create_customer: draws from the world generator; the
\* customer (its number, 0 for None) is left in ret
get_or_create_customer(s, key) ==
    LET c == s.config.customers
        w == s.rng.world
        p0 == s.pos.world
        p1 == p0 + (IF c.anonymous_allowed THEN 1 ELSE 0)
        p2 == p1 + (IF c.customer_id_reliability = "unreliable" THEN 1 ELSE 0)
        p3 == p2 + (IF s.customers # <<>> THEN 1 ELSE 0)
        p4 == p3 + (IF c.household_grouping THEN 1 ELSE 0)
        joins == c.household_grouping /\ boolean(U(w, p4), 400)
        existing_households == {s.customers[i] : i \in 1..Len(s.customers)} \ {0}
        p5 == p4 + (IF joins /\ existing_households # {} THEN 1 ELSE 0)
        reuse == joins /\ existing_households # {} /\ boolean(U(w, p5), 500)
        household_id ==
            IF ~joins THEN 0
            ELSE IF reuse
                 THEN SetItem(key, existing_households,
                              (U(w, p5 + 1) * Cardinality(existing_households)) \div 1000)
                 ELSE Cardinality(existing_households) + 1
    IN  IF c.customer_id_reliability = "absent" THEN [s EXCEPT !.ret = 0]
        ELSE IF c.anonymous_allowed /\ boolean(U(w, p1), 300)
             THEN [s EXCEPT !.ret = 0, !.pos.world = p1]
        ELSE IF s.customers # <<>> /\ boolean(U(w, p3), 700)
             THEN [s EXCEPT !.ret = choice(U(w, p3 + 1), Range(Len(s.customers))),
                            !.pos.world = p3 + 1]
        ELSE [s EXCEPT !.ret = Len(s.customers) + 1,
                       !.customers = Append(@, household_id),
                       !.pos.world = IF reuse THEN p5 + 1 ELSE p5]

(***************************************************************************)
(* events/emitters/sales.py                                                *)
(***************************************************************************)
\* the next emitter of the tick after emitter ns, or the end of the tick
NextEmitter(s, ns) ==
    LET i == CHOOSE i \in 1..Len(s.emitters) : s.emitters[i] = ns
    IN  IF i < Len(s.emitters) THEN s.emitters[i + 1] ELSE "advance"

\* the discount the selected promotions add to a line of the product
RECURSIVE promo_discount(_, _, _)
promo_discount(s, selected, price) ==
    IF selected = <<>> THEN 0
    ELSE LET promo == s.promotions[Head(selected)]
         IN  (CASE promo.discount_type = "percent" -> (price * promo.discount_value) \div 100
                [] promo.discount_type = "fixed" -> promo.discount_value
                [] OTHER -> 0)
             + promo_discount(s, Tail(selected), price)

\* SaleEventEmitter._generate_line_items, lines i..num_items, the sales
\* generator at position pos: the line items and the position reached
RECURSIVE generate_line_items(_, _, _, _)
generate_line_items(s, pos, i, num_items) ==
    IF i > num_items THEN [line_items |-> <<>>, pos |-> pos]
    ELSE LET r == s.rng.sales
             product == choice(U(r, pos + 1), s.products)
             price == product.current_price_cents
             p1 == pos + 1 + (IF product.bundle_components THEN 1 ELSE 0)
             as_bundle == product.bundle_components /\ boolean(U(r, p1), 800)
             p2 == p1 + 1
             applicable_promos ==
                 SelectSeq(Range(NumPromotions),
                           LAMBDA j : /\ ~s.promotions[j].is_basket_level
                                      /\ \/ s.promotions[j].all_skus
                                         \/ product.sku \in s.promotions[j].applicable_skus)
             many == s.config.promotions.promotions_per_line_item = "many"
             num_promos ==
                 IF applicable_promos = <<>> THEN 0
                 ELSE IF many THEN integer(U(r, p2 + 1), 0, Min(3, Len(applicable_promos)))
                 ELSE IF boolean(U(r, p2 + 1), 300) THEN 1 ELSE 0
             selected ==
                 IF many THEN sample(applicable_promos, Draws(r, p2 + 1, num_promos))
                 ELSE IF num_promos = 1 THEN <<choice(U(r, p2 + 2), applicable_promos)>>
                 ELSE <<>>
             p3 == IF applicable_promos = <<>> THEN p2 ELSE p2 + 1 + num_promos
             p4 == p3 + (IF s.config.transactions.manual_overrides THEN 1 ELSE 0)
             override == s.config.transactions.manual_overrides /\ boolean(U(r, p4), 50)
             p5 == p4 + (IF override THEN 1 ELSE 0)
             rest == generate_line_items(s, p5, i + 1, num_items)
         IN  [line_items |->
                <<[line_number |-> i, sku |-> product.sku,
                   quantity |-> integer(U(r, p2), 1, 5),
                   unit_price_cents |-> price,
                   discount_cents |-> IF override THEN integer(U(r, p5), 0, price \div 2)
                                      ELSE promo_discount(s, selected, price),
                   promotion_codes |-> selected,
                   bundle_parent_line |-> IF as_bundle THEN i ELSE 0]>>
                \o rest.line_items,
              pos |-> rest.pos]

\* sum of unit_price_cents * quantity - discount_cents
RECURSIVE total_cents(_)
total_cents(line_items) ==
    IF line_items = <<>> THEN 0
    ELSE (Head(line_items).unit_price_cents * Head(line_items).quantity)
         - Head(line_items).discount_cents + total_cents(Tail(line_items))

\* SaleEventEmitter._generate_payments, the sales generator at position pos:
\* the payment amounts and the position reached, or raised = TRUE when
\* rng.integer(100, remaining - 100) is handed an empty range (ValueError)
generate_payments(s, pos, total) ==
    LET r == s.rng.sales
        mp == s.config.transactions.multiple_payments
        p1 == pos + (IF mp THEN 1 ELSE 0)
        split == mp /\ boolean(U(r, p1), 200)
        num_payments == integer(U(r, p1 + 1), 2, 3)
        amount1 == integer(U(r, p1 + 2), 100, total - 100)
        remaining1 == total - amount1
        amount2 == integer(U(r, p1 + 5), 100, remaining1 - 100)
    IN  IF ~split THEN [raised |-> FALSE, payments |-> <<total>>, pos |-> p1 + 2]
        ELSE IF total - 100 < 100 THEN [raised |-> TRUE, payments |-> <<>>, pos |-> p1 + 2]
        ELSE IF num_payments = 2
             THEN [raised |-> FALSE, payments |-> <<amount1, remaining1>>, pos |-> p1 + 6]
        ELSE IF remaining1 - 100 < 100
             THEN [raised |-> TRUE, payments |-> <<>>, pos |-> p1 + 5]
        ELSE [raised |-> FALSE, payments |-> <<amount1, amount2, remaining1 - amount2>>,
              pos |-> p1 + 9]

\* SaleEventEmitter.should_emit
sale_should_emit(s) ==
    LET hour == (s.current_timestamp % 1440) \div 60 IN 8 <= hour /\ hour <= 22

\* SaleEventEmitter.emit (with _aggregate_line_items); an exception leaves
\* pc = "error"
sale_emit(s0, key) ==
    LET r == s0.rng.sales
        pos == s0.pos.sales
        store == choice(U(r, pos + 1), s0.stores)
        s == get_or_create_customer(s0, key)
        num_items == integer(U(r, pos + 4), 1, 10)
        li == generate_line_items(s, pos + 4, 1, num_items)
        total == total_cents(li.line_items)
        pay == generate_payments(s, li.pos, total)
        grain == s.config.transactions.grain
        p1 == pay.pos + (IF grain = "mixed" THEN 1 ELSE 0)
        is_aggregated == \/ grain = "receipt_level"
                         \/ grain = "mixed" /\ boolean(U(r, p1), 300)
        line_items == IF is_aggregated
                      THEN <<[line_number |-> 1, sku |-> 0, quantity |-> 1,
                              unit_price_cents |-> total, discount_cents |-> 0,
                              promotion_codes |-> <<>>, bundle_parent_line |-> 0]>>
                      ELSE li.line_items
        hour == (s.current_timestamp % 1440) \div 60
        sale_event ==
            [event_id |-> s.event_sequence + 1, event_type |-> "sale",
             event_timestamp |-> s.current_timestamp,
             business_effective_date |->
                 IF s.config.time.timestamp_business_date_relation = "different" /\ hour < 4
                 THEN s.current_business_date - 1 ELSE s.current_business_date,
             transaction_id |-> s.transaction_sequence + 1,
             store_id |-> store, customer_id |-> s.ret,
             line_items |-> line_items, payments |-> pay.payments,
             is_aggregated |-> is_aggregated]
        s1 == [s EXCEPT !.pos.sales = p1,
                        !.transaction_sequence = @ + 1, !.event_sequence = @ + 1,
                        !.transaction_history = Append(@, sale_event),
                        !.events = Append(@, sale_event)]
    IN  IF pay.raised THEN [s EXCEPT !.pc = "error", !.pos.sales = pay.pos]
        ELSE IF is_aggregated THEN s1
        ELSE update_inventory_items(s1, store, line_items, -1)

(***************************************************************************)
(* events/emitters/returns.py, voids.py                                    *)
(***************************************************************************)
\* every transaction of the history, voided or not
AllTransactions(s) == Range(Len(s.transaction_history))

\* the transactions of the history that are not voided, in history order
\* (the voidable / correctable list of the void and correction emitters)
NotVoided(s) ==
    SelectSeq(Range(Len(s.transaction_history)), LAMBDA t : t \notin s.voided_events)

\* WorldState.get_returnable_transactions(store_id)
get_returnable_transactions(s, store_id) ==
    SelectSeq(NotVoided(s),
              LAMBDA t : \/ s.config.stores.cross_store_returns
                         \/ s.transaction_history[t].store_id = store_id)

\* _generate_return_items, the branch returning lines of the original sale:
\* lines i.. of items_to_return, the returns generator at position pos
RECURSIVE return_items_original(_, _, _, _)
return_items_original(s, items_to_return, pos, i) ==
    IF i > Len(items_to_return) THEN [line_items |-> <<>>, pos |-> pos]
    ELSE LET r == s.rng.returns
             orig_item == items_to_return[i]
             pricing == s.config.returns.pricing_policy
             p1 == pos + 1 + (IF pricing = "arbitrary_override" THEN 1 ELSE 0)
             rest == return_items_original(s, items_to_return, p1, i + 1)
         IN  [line_items |->
                <<[line_number |-> i, sku |-> orig_item.sku,
                   quantity |-> integer(U(r, pos + 1), 1, orig_item.quantity),
                   unit_price_cents |->
                       CASE pricing = "original_price" -> orig_item.unit_price_cents
                         [] pricing = "current_price" ->
                              s.products[orig_item.sku].current_price_cents
                         [] OTHER -> integer(U(r, p1), orig_item.unit_price_cents \div 2,
                                             orig_item.unit_price_cents),
                   discount_cents |-> 0, promotion_codes |-> <<>>,
                   bundle_parent_line |-> 0]>>
                \o rest.line_items,
              pos |-> rest.pos]

\* _generate_return_items, the branch without a line-level original: lines
\* i..num_items of arbitrary products
RECURSIVE return_items_arbitrary(_, _, _, _)
return_items_arbitrary(s, pos, i, num_items) ==
    IF i > num_items THEN [line_items |-> <<>>, pos |-> pos]
    ELSE LET r == s.rng.returns
             product == choice(U(r, pos + 1), s.products)
             override == s.config.returns.pricing_policy = "arbitrary_override"
             p1 == pos + 2 + (IF override THEN 1 ELSE 0)
             rest == return_items_arbitrary(s, p1, i + 1, num_items)
         IN  [line_items |->
                <<[line_number |-> i, sku |-> product.sku,
                   quantity |-> integer(U(r, pos + 2), 1, 3),
                   unit_price_cents |->
                       IF override
                       THEN integer(U(r, p1), product.current_price_cents \div 2,
                                    product.current_price_cents * 2)
                       ELSE product.current_price_cents,
                   discount_cents |-> 0, promotion_codes |-> <<>>,
                   bundle_parent_line |-> 0]>>
                \o rest.line_items,
              pos |-> rest.pos]

\* ReturnEventEmitter.should_emit and, when it says so, emit
return_emit(s0, key) ==
    LET r == s0.rng.returns
        pos == s0.pos.returns + 1
        store == choice(U(r, pos + 1), s0.stores)
        returnable == get_returnable_transactions(s0, store)
        ref_policy == s0.config.returns.reference_policy
        p1 == pos + 3 + (IF ref_policy = "never" THEN 0 ELSE 1)
        referenced == \/ ref_policy = "always"
                      \/ ref_policy = "sometimes" /\ boolean(U(r, p1), 600)
        p2 == p1 + (IF ref_policy = "sometimes" /\ referenced THEN 1 ELSE 0)
        original_txn_id == IF referenced THEN choice(U(r, p2), returnable) ELSE 0
        original_sale == s0.transaction_history[original_txn_id]
        from_original == referenced /\ ~original_sale.is_aggregated
        num_items == IF from_original
                     THEN integer(U(r, p2 + 1), 1, Len(original_sale.line_items))
                     ELSE integer(U(r, p2 + 1), 1, 3)
        li == IF from_original
              THEN return_items_original(
                       s0, sample(original_sale.line_items, Draws(r, p2 + 1, num_items)),
                       p2 + 1 + num_items, 1)
              ELSE return_items_arbitrary(s0, p2 + 1, 1, num_items)
        pricing == s0.config.returns.pricing_policy
        keep_customer == referenced /\ original_sale.customer_id # 0
        s == IF keep_customer THEN s0 ELSE get_or_create_customer(s0, key)
        return_event ==
            [event_id |-> s.event_sequence + 1, event_type |-> "return",
             event_timestamp |-> s.current_timestamp,
             business_effective_date |-> s.current_business_date,
             store_id |-> store,
             customer_id |-> IF keep_customer THEN original_sale.customer_id ELSE s.ret,
             original_transaction_id |-> original_txn_id,
             line_items |-> li.line_items,
             price_determination |->
                 CASE pricing = "original_price" -> "original"
                   [] pricing = "current_price" -> "current"
                   [] OTHER -> "override"]
    IN  IF s0.transaction_history = <<>> THEN s0
        ELSE IF ~boolean(U(r, pos), 150) THEN [s0 EXCEPT !.pos.returns = pos]
        ELSE IF returnable = <<>> THEN [s0 EXCEPT !.pos.returns = pos + 3]
        ELSE update_inventory_items(
                 [s EXCEPT !.pos.returns = li.pos + 1, !.event_sequence = @ + 1,
                           !.events = Append(@, return_event)],
                 store, li.line_items, 1)

\* VoidEventEmitter.should_emit and, when it says so, emit
void_emit(s) ==
    LET r == s.rng.voids
        pos == s.pos.voids + 1
        voidable == NotVoided(s)
        txn_id == choice(U(r, pos + 1), voidable)
        original == s.transaction_history[txn_id]
        void_event ==
            [event_id |-> s.event_sequence + 1, event_type |-> "void",
             event_timestamp |-> s.current_timestamp,
             business_effective_date |-> s.current_business_date,
             original_event_id |-> original.event_id,
             original_event_type |-> "sale"]
        s1 == [s EXCEPT !.pos.voids = pos + 3, !.event_sequence = @ + 1,
                        !.voided_events = @ \cup {txn_id},
                        !.events = Append(@, void_event)]
    IN  IF ~s.config.transactions.voids_enabled \/ s.transaction_history = <<>> THEN s
        ELSE IF ~boolean(U(r, pos), 30) THEN [s EXCEPT !.pos.voids = pos]
        ELSE IF voidable = <<>> THEN [s EXCEPT !.pos.voids = pos]
        ELSE IF original.is_aggregated THEN s1
        ELSE update_inventory_items(s1, original.store_id, original.line_items, 1)

\* CORRECTABLE_FIELDS
CORRECTABLE_FIELDS ==
    <<"customer_id", "employee_id", "line_item_quantity", "line_item_price", "promotion_code">>

\* CorrectionEventEmitter._generate_corrections, fields i.. of
\* fields_to_correct, the corrections generator at position pos: the world
\* (a customer may be created), the corrections and the position reached
RECURSIVE generate_corrections(_, _, _, _, _, _)
generate_corrections(s, key, original, fields_to_correct, pos, i) ==
    IF i > Len(fields_to_correct) THEN [s |-> s, corrections |-> <<>>, pos |-> pos]
    ELSE LET r == s.rng.corrections
             field == fields_to_correct[i]
             lines == ~original.is_aggregated
             li == choice(U(r, pos + 1), original.line_items)
             s1 == IF field = "customer_id" THEN get_or_create_customer(s, key) ELSE s
             added ==
                 CASE field = "customer_id" ->
                        <<[field |-> "customer_id", line_number |-> 0, value |-> s1.ret]>>
                   [] field = "employee_id" ->
                        <<[field |-> "employee_id", line_number |-> 0, value |-> 0]>>
                   [] field = "line_item_quantity" /\ lines ->
                        <<[field |-> "quantity", line_number |-> li.line_number,
                           value |-> integer(U(r, pos + 2), 1, li.quantity + 2)]>>
                   [] field = "line_item_price" /\ lines ->
                        <<[field |-> "unit_price_cents", line_number |-> li.line_number,
                           value |-> Max(1, li.unit_price_cents
                                            + integer(U(r, pos + 2), -500, 500))]>>
                   [] field = "promotion_code" ->
                        <<[field |-> "promotion_code_added", line_number |-> 0,
                           value |-> choice(U(r, pos + 1), Range(NumPromotions))]>>
                   [] OTHER -> <<>>
             p1 == CASE field = "customer_id" -> pos
                     [] field \in {"employee_id", "promotion_code"} -> pos + 1
                     [] OTHER -> IF lines THEN pos + 2 ELSE pos
             rest == generate_corrections(s1, key, original, fields_to_correct, p1, i + 1)
         IN  [s |-> rest.s, corrections |-> added \o rest.corrections, pos |-> rest.pos]

\* CorrectionEventEmitter.should_emit and, when it says so, emit
correction_emit(s0, key) ==
    LET r == s0.rng.corrections
        pos == s0.pos.corrections + 1
        correctable == NotVoided(s0)
        txn_id == choice(U(r, pos + 1), correctable)
        original == s0.transaction_history[txn_id]
        num_corrections == integer(U(r, pos + 2), 1, 2)
        fields_to_correct == sample(CORRECTABLE_FIELDS, Draws(r, pos + 2, num_corrections))
        gc == generate_corrections(s0, key, original, fields_to_correct,
                                   pos + 2 + num_corrections, 1)
        shifted == boolean(U(r, gc.pos + 1), 300)
        p1 == gc.pos + 1 + (IF shifted THEN 1 ELSE 0)
        correction_event ==
            [event_id |-> gc.s.event_sequence + 1, event_type |-> "correction",
             event_timestamp |-> gc.s.current_timestamp,
             business_effective_date |->
                 original.business_effective_date
                 + (IF shifted THEN integer(U(r, p1), 0, 3) ELSE 0),
             original_event_id |-> original.event_id,
             field_corrections |-> gc.corrections]
    IN  IF ~s0.config.time.backdated_corrections \/ s0.transaction_history = <<>> THEN s0
        ELSE IF ~boolean(U(r, pos), 20) THEN [s0 EXCEPT !.pos.corrections = pos]
        ELSE IF correctable = <<>> THEN [s0 EXCEPT !.pos.corrections = pos]
        ELSE [gc.s EXCEPT !.pos.corrections = p1 + 1, !.event_sequence = @ + 1,
                          !.events = Append(@, correction_event)]

(***************************************************************************)
(* events/emitters/inventory.py                                            *)
(***************************************************************************)
\* ADJUSTMENT_REASONS
ADJUSTMENT_REASONS ==
    <<"receiving", "damage", "theft", "count_correction", "transfer_in", "transfer_out",
      "expired", "return_to_vendor">>

\* InventoryEventEmitter._emit_snapshots: one event per store and sku of the
\* inventory map, in the map's order, pairs i.. of it
RECURSIVE emit_snapshots(_, _, _)
emit_snapshots(s, pairs, i) ==
    IF i > Len(pairs) THEN <<>>
    ELSE <<[event_id |-> s.event_sequence + i, event_type |-> "inventory_snapshot",
            event_timestamp |-> s.current_timestamp,
            business_effective_date |-> s.current_business_date,
            store_id |-> pairs[i][1], sku |-> pairs[i][2],
            quantity_on_hand |-> s.inventory[pairs[i]],
            snapshot_type |-> "daily"]>>
         \o emit_snapshots(s, pairs, i + 1)

\* InventoryEventEmitter.should_emit and, when it says so, emit (with
\* _emit_adjustment)
inventory_emit(s) ==
    LET r == s.rng.inventory
        inv_type == s.config.inventory.inventory_type
        transactional == inv_type \in {"transactional", "both"}
        pos == s.pos.inventory + (IF transactional THEN 1 ELSE 0)
        hour == (s.current_timestamp % 1440) \div 60
        should_snapshot == /\ inv_type \in {"periodic_snapshot", "both"}
                           /\ s.last_snapshot_date # s.current_business_date
                           /\ hour >= 22
        should_emit == (transactional /\ boolean(U(r, pos), 50)) \/ should_snapshot
        pairs == SelectSeq(
                     [k \in 1..(Len(s.stores) * NumProducts) |->
                        <<s.stores[1 + ((k - 1) \div NumProducts)], 1 + ((k - 1) % NumProducts)>>],
                     LAMBDA x : x \in DOMAIN s.inventory)
        snapshots == emit_snapshots(s, pairs, 1)
        store == choice(U(r, pos + 1), s.stores)
        product == choice(U(r, pos + 2), s.products)
        reason == choice(U(r, pos + 3), ADJUSTMENT_REASONS)
        quantity_change ==
            IF reason \in {"receiving", "transfer_in", "count_correction"}
            THEN integer(U(r, pos + 4), 1, 50)
            ELSE -integer(U(r, pos + 4), 1, 10)
        adjustment ==
            [event_id |-> s.event_sequence + 1, event_type |-> "inventory_adjustment",
             event_timestamp |-> s.current_timestamp,
             business_effective_date |-> s.current_business_date,
             store_id |-> store, sku |-> product.sku,
             quantity_change |-> quantity_change, reason_code |-> reason]
    IN  IF ~s.config.inventory.tracked THEN s
        ELSE IF ~should_emit THEN [s EXCEPT !.pos.inventory = pos]
        ELSE IF should_snapshot
             THEN [s EXCEPT !.pos.inventory = pos, !.event_sequence = @ + Len(pairs),
                            !.last_snapshot_date = s.current_business_date,
                            !.events = @ \o snapshots]
        ELSE IF transactional
             THEN [update_inventory(s, store, product.sku, quantity_change)
                     EXCEPT !.pos.inventory = pos + 4, !.event_sequence = @ + 1,
                            !.events = Append(@, adjustment)]
        ELSE [s EXCEPT !.pos.inventory = pos]

(***************************************************************************)
(* events/generator.py                                                     *)
(***************************************************************************)
\* EventGenerator._maybe_emit_product_changes
maybe_emit_product_changes(s) ==
    LET r == s.rng.root
        pos == s.pos.root
        freq == s.config.products.hierarchy_change_frequency
        product == choice(U(r, pos + 2), s.products)
        change_type == choice(U(r, pos + 3), <<"hierarchy", "price">>)
        new_hierarchy == choice(U(r, pos + 4), <<1, 2, 4, 6, 8>>)
        new_price == Max(100, product.current_price_cents + integer(U(r, pos + 4), -1000, 1000))
        change ==
            [event_id |-> s.event_sequence + 1, event_type |-> "product_change",
             event_timestamp |-> s.current_timestamp,
             business_effective_date |-> s.current_business_date,
             sku |-> product.sku, change_type |-> change_type,
             old_value |-> IF change_type = "hierarchy" THEN product.category_hierarchy
                           ELSE product.current_price_cents,
             new_value |-> IF change_type = "hierarchy" THEN new_hierarchy ELSE new_price]
    IN  IF freq = "none" THEN s
        ELSE IF ~boolean(U(r, pos + 1), IF freq = "occasional" THEN 100 ELSE 300)
             THEN [s EXCEPT !.pos.root = pos + 1]
        ELSE [s EXCEPT !.pos.root = pos + 4, !.event_sequence = @ + 1,
                       !.products[product.sku] =
                           IF change_type = "hierarchy"
                           THEN [@ EXCEPT !.category_hierarchy = new_hierarchy]
                           ELSE [@ EXCEPT !.current_price_cents = new_price],
                       !.events = Append(@, change)]

\* a sort that puts the newest event first
sort_newest_first(events) ==
    SortSeq(events, LAMBDA a, b : a.event_timestamp > b.event_timestamp)

\* events.sort(key=lambda e: e.event_timestamp): a stable sort
sort(events) ==
    SortSeq(events, LAMBDA a, b : a.event_timestamp < b.event_timestamp)

\* generate() without its trim to the requested count
sort_only(events, num_events) == sort(events)

\* generate(), after its loop: sort by timestamp and trim to the requested count
sort_and_trim(events, num_events) ==
    IF Len(sort(events)) > num_events THEN SubSeq(sort(events), 1, num_events)
    ELSE sort(events)

\* a base configuration and the sample configurations simulated
BaseConfig ==
    [transactions |-> [grain |-> "line_item_level", multiple_payments |-> FALSE,
                       voids_enabled |-> FALSE, manual_overrides |-> FALSE],
     time |-> [timestamp_business_date_relation |-> "same", late_arriving_events |-> FALSE,
               backdated_corrections |-> FALSE],
     products |-> [sku_reuse |-> FALSE, hierarchy_change_frequency |-> "none",
                   bundled_products |-> FALSE, virtual_products |-> FALSE],
     customers |-> [anonymous_allowed |-> FALSE, customer_id_reliability |-> "reliable",
                    household_grouping |-> FALSE],
     stores |-> [physical_stores |-> TRUE, online_channel |-> FALSE,
                 cross_store_returns |-> FALSE, store_lifecycle_changes |-> FALSE],
     promotions |-> [promotions_per_line_item |-> "one", stackable_promotions |-> FALSE,
                     basket_level_promotions |-> FALSE, post_transaction_promotions |-> FALSE],
     returns |-> [reference_policy |-> "always", pricing_policy |-> "original_price"],
     inventory |-> [tracked |-> FALSE, inventory_type |-> None]]

SimConfigs ==
    { [BaseConfig EXCEPT
         !.transactions.grain = "mixed", !.returns.reference_policy = "sometimes"],
      [BaseConfig EXCEPT
         !.transactions = [grain |-> "mixed", multiple_payments |-> TRUE,
                           voids_enabled |-> TRUE, manual_overrides |-> TRUE],
         !.time = [timestamp_business_date_relation |-> "different",
                   late_arriving_events |-> TRUE, backdated_corrections |-> TRUE],
         !.products = [sku_reuse |-> TRUE, hierarchy_change_frequency |-> "frequent",
                       bundled_products |-> TRUE, virtual_products |-> TRUE],
         !.customers = [anonymous_allowed |-> TRUE, customer_id_reliability |-> "unreliable",
                        household_grouping |-> TRUE],
         !.stores = [physical_stores |-> TRUE, online_channel |-> TRUE,
                     cross_store_returns |-> TRUE, store_lifecycle_changes |-> TRUE],
         !.promotions = [promotions_per_line_item |-> "many", stackable_promotions |-> TRUE,
                         basket_level_promotions |-> TRUE, post_transaction_promotions |-> TRUE],
         !.returns = [reference_policy |-> "sometimes", pricing_policy |-> "arbitrary_override"],
         !.inventory = [tracked |-> TRUE, inventory_type |-> "both"]],
      [BaseConfig EXCEPT
         !.transactions.grain = "receipt_level", !.transactions.multiple_payments = TRUE,
         !.products.hierarchy_change_frequency = "occasional",
         !.customers.customer_id_reliability = "absent",
         !.stores.physical_stores = FALSE, !.stores.online_channel = TRUE,
         !.returns.reference_policy = "never",
         !.inventory = [tracked |-> TRUE, inventory_type |-> "periodic_snapshot"]],
      [BaseConfig EXCEPT
         !.transactions.multiple_payments = TRUE, !.transactions.voids_enabled = TRUE,
         !.time.backdated_corrections = TRUE,
         !.promotions.promotions_per_line_item = "many",
         !.returns.pricing_policy = "current_price",
         !.inventory = [tracked |-> TRUE, inventory_type |-> "transactional"]] }

\* the (num_events, simulation_days) arguments tried
GenerateArgs == {<<0, 1>>, <<5, 0>>, <<5, 2>>, <<1000, 2>>}

\* the seeds simulated: the small seeds and one whose run emits, within the
\* days simulated, a correction with a shifted date and one with no fields
SimSeeds == Seeds \cup {10}

Finished(p) == sim[p].pc \in {"done", "error"}

\* process 1 holds EventGenerator(config, seed) for a sample configuration;
\* process 2 is not started yet
InitSim ==
    /\ adversary = "none"
    /\ \E key \in HashKeys : hashKey = [p \in Procs |-> key]
    /\ gen = IdleGen
    /\ rngs = IdleRngs
    /\ drawn = IdleDrawn
    /\ \E config \in {c \in SimConfigs : CrossFieldInvariants(c)}, seed \in SimSeeds :
          sim = [p \in Procs |->
                   IF p = 1 THEN EventGenerator(config, seed, hashKey[1]) ELSE Idle]
    /\ ev = Idle
    /\ doc = Idle

\* process 1 calls generate(num_events, simulation_days)
Generate ==
    /\ sim[1].pc = "ready"
    /\ \E args \in GenerateArgs :
          sim' = [sim EXCEPT ![1].pc = "loop", ![1].num_events = args[1],
                             ![1].simulation_days = args[2]]
    /\ UNCHANGED <<hashKey, adversary, gen, rngs, drawn, ev, doc>>

\* after process 1's call ended, a second interpreter process starts, with its
\* own hash key, and makes the same call on the same configuration and seed
Launch ==
    /\ Finished(1)
    /\ sim[2].pc = "idle"
    /\ \E key \in HashKeys :
          /\ hashKey' = [hashKey EXCEPT ![2] = key]
          /\ sim' = [sim EXCEPT ![2] =
                       [EventGenerator(sim[1].config, sim[1].seed, key) EXCEPT
                          !.pc = "loop", !.num_events = sim[1].num_events,
                          !.simulation_days = sim[1].simulation_days]]
    /\ UNCHANGED <<adversary, gen, rngs, drawn, ev, doc>>

\* a step of process p's generate() that takes its state from s to s2
SimStep(p, s2) ==
    /\ sim' = [sim EXCEPT ![p] = s2]
    /\ UNCHANGED <<hashKey, adversary, gen, rngs, drawn, ev, doc>>

\* generate(): the loop test holds, _simulate_day starts
SimulateDay(p) ==
    /\ sim[p].pc = "loop"
    /\ Len(sim[p].events) < sim[p].num_events
    /\ sim[p].days_simulated < sim[p].simulation_days
    /\ SimStep(p, [sim[p] EXCEPT !.pc = "tick", !.business_date = sim[p].current_business_date])

\* generate(): the loop test fails, the log is sorted, trimmed and returned
Return(p) ==
    /\ sim[p].pc = "loop"
    /\ ~(/\ Len(sim[p].events) < sim[p].num_events
         /\ sim[p].days_simulated < sim[p].simulation_days)
    /\ SimStep(p, [sim[p] EXCEPT !.pc = "done",
                                 !.log = sort_and_trim(sim[p].events, sim[p].num_events)])

\* _simulate_day: tick_minutes = self.rng.integer(5, 30)
Tick(p) ==
    /\ sim[p].pc = "tick"
    /\ SimStep(p, [sim[p] EXCEPT
                     !.pc = sim[p].emitters[1], !.pos.root = @ + 1,
                     !.tick_minutes = integer(U(sim[p].rng.root, sim[p].pos.root + 1), 5, 30)])

\* the emitter's turn in the tick ends: the next emitter's turn, or the
\* exception propagates out of generate()
EmitterStep(p, ns, s2) ==
    /\ sim[p].pc = ns
    /\ SimStep(p, IF s2.pc = "error" THEN s2 ELSE [s2 EXCEPT !.pc = NextEmitter(s2, ns)])

SaleEmit(p) ==
    EmitterStep(p, "sales",
                IF sale_should_emit(sim[p]) THEN sale_emit(sim[p], hashKey[p]) ELSE sim[p])
ReturnEmit(p) == EmitterStep(p, "returns", return_emit(sim[p], hashKey[p]))
VoidEmit(p) == EmitterStep(p, "voids", void_emit(sim[p]))
CorrectionEmit(p) == EmitterStep(p, "corrections", correction_emit(sim[p], hashKey[p]))
InventoryEmit(p) == EmitterStep(p, "inventory", inventory_emit(sim[p]))

\* _simulate_day closing the business day as soon as the hour is 22
AdvanceTimeClosingAt22(p) ==
    /\ sim[p].pc = "advance"
    /\ LET t == sim[p].current_timestamp + sim[p].tick_minutes
           closing == (t % 1440) \div 60 >= 22
           date == sim[p].current_business_date + (IF closing THEN 1 ELSE 0)
       IN  SimStep(p, [sim[p] EXCEPT
                         !.current_timestamp = IF closing THEN (date * 1440) + (9 * 60) ELSE t,
                         !.current_business_date = date,
                         !.pc = IF date = sim[p].business_date THEN "tick" ELSE "changes"])

\* _simulate_day closing the business day only once the clock has passed
\* midnight
AdvanceTimeClosingAfterMidnight(p) ==
    /\ sim[p].pc = "advance"
    /\ LET t == sim[p].current_timestamp + sim[p].tick_minutes
           closing == t \div 1440 > sim[p].current_business_date
           date == sim[p].current_business_date + (IF closing THEN 1 ELSE 0)
       IN  SimStep(p, [sim[p] EXCEPT
                         !.current_timestamp = IF closing THEN (date * 1440) + (9 * 60) ELSE t,
                         !.current_business_date = date,
                         !.pc = IF date = sim[p].business_date THEN "tick" ELSE "changes"])

\* _simulate_day: advance_time(tick_minutes), advance_business_date() once the
\* hour is 23 or later, and the day's loop test
AdvanceTime(p) ==
    /\ sim[p].pc = "advance"
    /\ LET t == sim[p].current_timestamp + sim[p].tick_minutes
           closing == (t % 1440) \div 60 >= 23
           date == sim[p].current_business_date + (IF closing THEN 1 ELSE 0)
       IN  SimStep(p, [sim[p] EXCEPT
                         !.current_timestamp = IF closing THEN (date * 1440) + (9 * 60) ELSE t,
                         !.current_business_date = date,
                         !.pc = IF date = sim[p].business_date THEN "tick" ELSE "changes"])

\* generate(): the day's events are collected, days_simulated += 1, and the
\* product changes are emitted if configured
EndDay(p) ==
    /\ sim[p].pc = "changes"
    /\ SimStep(p, [maybe_emit_product_changes(sim[p]) EXCEPT
                     !.pc = "loop", !.days_simulated = @ + 1])

NextSim ==
    \/ Generate
    \/ Launch
    \/ \E p \in Procs :
          \/ SimulateDay(p)
          \/ Return(p)
          \/ Tick(p)
          \/ SaleEmit(p)
          \/ ReturnEmit(p)
          \/ VoidEmit(p)
          \/ CorrectionEmit(p)
          \/ InventoryEmit(p)
          \/ AdvanceTime(p)
          \/ EndDay(p)

SpecSim == InitSim /\ [][NextSim]_vars

\* C1: two independent runs of EventGenerator(C, seed).generate(n, d), also in
\* two processes, end the same way and return identical event logs
C1_SameLog ==
    (Finished(1) /\ Finished(2)) =>
        /\ sim[1].pc = sim[2].pc
        /\ sim[1].log = sim[2].log

\* C5: the returned log has at most num_events events, in non-decreasing
\* order of event_timestamp
C5_MonotonicTruncation ==
    \A p \in Procs :
        sim[p].pc = "done" =>
            /\ Len(sim[p].log) <= sim[p].num_events
            /\ \A i \in 1..(Len(sim[p].log) - 1) :
                  sim[p].log[i].event_timestamp <= sim[p].log[i + 1].event_timestamp

\* C5 witness: a returned log that the trim shortened to exactly num_events > 0 events
C5_Witness ==
    /\ sim[1].pc = "done"
    /\ sim[1].num_events > 0
    /\ Len(sim[1].events) > sim[1].num_events
    /\ Len(sim[1].log) = sim[1].num_events

\* C6: every generate(n, d) call returns a log (no step of it raises), and a
\* log with fewer than n events is returned only after exactly d simulated days
C6_ReturnsLog ==
    \A p \in Procs :
        /\ sim[p].pc # "error"
        /\ (sim[p].pc = "done" /\ Len(sim[p].log) < sim[p].num_events)
              => sim[p].days_simulated = sim[p].simulation_days

(***************************************************************************)
(* schema/models.py and schema/parser.py: submission documents             *)
(***************************************************************************)
\* str.lower() on ASCII text
RECURSIVE lower(_)
lower(s) ==
    IF s = "" THEN ""
    ELSE LET c == SubSeq(s, 1, 1)
             up == "ABCDEFGHIJKLMNOPQRSTUVWXYZ"
             lo == "abcdefghijklmnopqrstuvwxyz"
             k == {i \in 1..26 : SubSeq(up, i, i) = c}
         IN  (IF k = {} THEN c ELSE LET i == CHOOSE j \in k : TRUE IN SubSeq(lo, i, i))
             \o lower(Tail(s))

\* p in s, for two strings
In(p, s) == \E i \in 1..(Len(s) - Len(p) + 1) : SubSeq(s, i, i + Len(p) - 1) = p

\* the elements of a list
Elems(s) == {s[i] : i \in DOMAIN s}

\* any(p in s for p in patterns for s in strings)
AnyIn(patterns, strings) == \E p \in patterns, s \in strings : In(p, s)

\* str.strip() of spaces
RECURSIVE strip(_)
strip(s) ==
    IF s = "" THEN ""
    ELSE IF SubSeq(s, 1, 1) = " " THEN strip(Tail(s))
    ELSE IF SubSeq(s, Len(s), Len(s)) = " " THEN strip(SubSeq(s, 1, Len(s) - 1))
    ELSE s

\* s.split("_")[0]
split0(s) ==
    LET k == {i \in 1..Len(s) : SubSeq(s, i, i) = "_"}
    IN  IF k = {} THEN s ELSE SubSeq(s, 1, (CHOOSE i \in k : \A j \in k : i <= j) - 1)

\* s.endswith(suffix)
endswith(s, suffix) ==
    /\ Len(s) >= Len(suffix)
    /\ SubSeq(s, Len(s) - Len(suffix) + 1, Len(s)) = suffix

\* the flattening of a list of lists
RECURSIVE Concat(_)
Concat(ss) == IF ss = <<>> THEN <<>> ELSE Head(ss) \o Concat(Tail(ss))

SCDType == {"type_0", "type_1", "type_2", "type_3", "type_4", "type_6", "none"}
AggregationType == {"sum", "count", "min", "max", "avg", "distinct_count"}

\* the field validators: TRUE when the value is accepted
validate_accept_any(v) == TRUE
validate_grain_columns(v) == v # <<>>
validate_natural_key(v) == v # <<>>
validate_fact_tables(v) == v # <<>>

\* validation of one fact_tables / dimension_tables entry
FactTable(f) ==
    /\ \A i \in DOMAIN f.measures : f.measures[i].aggregation \in AggregationType
    /\ validate_grain_columns(f.grain_columns)
DimensionTable(d) ==
    /\ d.scd_strategy \in SCDType
    /\ validate_natural_key(d.natural_key)

NoSubmission ==
    [fact_tables |-> <<>>, dimension_tables |-> <<>>, relationships |-> <<>>,
     bridge_tables |-> <<>>]

\* SchemaSubmission.model_validate(data): data.missing names the keys the
\* document does not have; bridge_tables defaults to []
model_validate(data) ==
    LET ok == /\ data.missing \cap {"fact_tables", "dimension_tables", "relationships"} = {}
              /\ \A i \in DOMAIN data.fact_tables : FactTable(data.fact_tables[i])
              /\ validate_fact_tables(data.fact_tables)
              /\ \A i \in DOMAIN data.dimension_tables : DimensionTable(data.dimension_tables[i])
    IN  IF ok
        THEN [raised |-> FALSE, error |-> "",
              submission |->
                  [fact_tables |-> data.fact_tables,
                   dimension_tables |-> data.dimension_tables,
                   relationships |-> data.relationships,
                   bridge_tables |-> IF "bridge_tables" \in data.missing THEN <<>>
                                     ELSE data.bridge_tables]]
        ELSE [raised |-> TRUE, error |-> "ValidationError", submission |-> NoSubmission]

\* parse_schema(source): a dict, a Path, a str naming an existing file or a
\* str of JSON text; source.data is the document the dict or the text holds,
\* source.wellformed whether the text is JSON, source.exists whether the
\* file is there
parse_schema(source) ==
    LET failed(e) == [raised |-> TRUE, error |-> e, submission |-> NoSubmission]
        loaded == IF source.wellformed THEN model_validate(source.data)
                  ELSE failed("JSONDecodeError")
    IN  CASE source.kind = "dict" -> model_validate(source.data)
          [] source.kind = "Path" -> IF source.exists THEN loaded
                                     ELSE failed("FileNotFoundError")
          [] source.kind = "str" -> loaded
          [] OTHER -> failed("TypeError")

\* sample fact tables, dimension tables, relationships and bridge tables
SampleTables ==
    LET GC(n, ref, deg) == [name |-> n, references_dimension |-> ref, is_degenerate |-> deg]
        M(n) == [name |-> n, data_type |-> "integer", aggregation |-> "sum"]
        Fact(n, desc, gcs, ms, keys) ==
            [name |-> n, grain_description |-> desc, grain_columns |-> gcs,
             measures |-> ms, dimension_keys |-> keys]
        A(n, tracked) == [name |-> n, data_type |-> "string", scd_tracked |-> tracked]
        Dim(n, nk, sk, scd, attrs, parent) ==
            [name |-> n, natural_key |-> nk, surrogate_key |-> sk, scd_strategy |-> scd,
             attributes |-> attrs, parent_dimension |-> parent]
        Rel(f, d, card) == [fact_table |-> f, dimension_table |-> d, cardinality |-> card]
        Br(n, f, d) == [name |-> n, fact_table |-> f, dimension_table |-> d]
        FSales == Fact("fact_sales", "One row per line item of a sale",
                       <<GC("transaction_id", None, TRUE), GC("line_number", None, TRUE)>>,
                       <<M("quantity"), M("amount_cents")>>,
                       <<"date_key", "product_key", "store_key", "customer_key">>)
        FReturns == Fact("fact_returns", "One row per returned item line",
                         <<GC("return_id", None, TRUE),
                           GC("original_transaction_id", None, TRUE)>>,
                         <<M("refund_quantity")>>, <<"date_key", "product_key">>)
        FReturnsNoRef == Fact("fact_returns", "One row per returned item",
                              <<GC("return_id", None, TRUE)>>,
                              <<M("refund_quantity")>>, <<"date_key", "product_key">>)
        FTxn == Fact("fact_transaction_lines",
                     "One row per line item of a receipt, with its status",
                     <<GC("transaction_id", None, TRUE), GC("line_number", None, TRUE),
                       GC("event_timestamp", None, FALSE)>>,
                     <<M("Quantity")>>, <<"date_key", "product_key">>)
        FInventory == Fact("fact_inventory_snapshot", "One row per product per shop per day",
                           <<GC("product_key", "product_key", FALSE),
                             GC("snapshot_date", "date_key", FALSE)>>,
                           <<M("quantity_on_hand")>>, <<"product_key", "store_key">>)
        FPayments == Fact("fact_payments", "One row per payment tender",
                          <<GC("payment_id", None, TRUE)>>, <<M("amount_cents")>>,
                          <<"business_date_key">>)
        FChanges == Fact("fact_product_store_changes", "One row per attribute change",
                         <<GC("change_id", None, TRUE)>>, <<>>, <<"effective_date_key">>)
        FVisits == Fact("Fact_Visits", "  visit   ", <<GC("visit_id", None, TRUE)>>,
                        <<M("visits")>>, <<>>)
        FOrders == Fact("fact_orders", "One row per transaction OR per line item",
                        <<GC("order_id", None, TRUE)>>, <<M("qty")>>, <<"date_key">>)
        FNoGrain == Fact("fact_promotions", "One row per promotion applied", <<>>,
                         <<M("discount_cents")>>, <<"promotion_key">>)
        Weak(n, col) == Fact(n, "each transaction line item event",
                             <<GC(col, None, TRUE)>>, <<M("quantity")>>, <<"date_key">>)
        DateAttrs == <<A("year", FALSE), A("quarter", FALSE), A("month_name", FALSE),
                       A("day_of_week", FALSE)>>
        DDate(n) == Dim(n, <<"calendar_date">>, "date_key", "type_0", DateAttrs, None)
        DProduct2 == Dim("dim_product", <<"sku">>, "product_key", "type_2",
                         <<A("name", FALSE), A("category", TRUE)>>, None)
        DProduct1 == Dim("dim_product", <<"sku">>, "product_key", "type_1",
                         <<A("name", FALSE), A("category", FALSE)>>, None)
        DStore2 == Dim("Dim_Store", <<"store_id">>, "store_key", "type_2",
                       <<A("region", TRUE)>>, None)
        DStore1 == Dim("Dim_Store", <<"store_id">>, "", "type_1", <<A("region", FALSE)>>, None)
        DCustomer2 == Dim("dim_customer", <<"customer_id">>, "customer_key", "type_2",
                          <<A("Household_Id", TRUE), A("segment", FALSE)>>, None)
        DCustomer1 == Dim("dim_customer", <<"customer_id">>, "customer_key", "type_1",
                          <<A("segment", FALSE)>>, None)
        DPayment == Dim("dim_payment_method", <<"method">>, "payment_method_sk", "none",
                        <<A("label", FALSE)>>, None)
        DCategory == Dim("dim_category", <<"category_code">>, "category_id", "type_1",
                         <<A("category_name", FALSE)>>, None)
        DProductSnow == Dim("dim_item", <<"sku">>, "item_key", "type_6",
                            <<A("name", FALSE)>>, "dim_category")
        DBrand == Dim("dim_brand", <<"brand">>, "brand_key", "type_1",
                      <<A("brand_name", FALSE)>>, "dim_nowhere")
        DNoKey == Dim("dim_promotion", <<>>, "promotion_key", "type_1",
                      <<A("promotion_code", FALSE)>>, None)
        DBadScd == Dim("dim_employee", <<"employee_id">>, "employee_key", "type_5",
                       <<A("name", FALSE)>>, None)
        Dims4 == <<"dim_date", "dim_product", "Dim_Store", "dim_customer">>
        Star(f) == [i \in 1..4 |-> Rel(f, Dims4[i], "many-to-one")]
    IN  [weak |-> <<Weak("fact_transaction_payment", "transaction_id"),
                    Weak("fact_return_inventory", "return_id"),
                    Weak("fact_product_store", "change_id")>>,
         facts |-> { <<>>, <<FSales>>, <<FSales, FReturns>>,
                     <<FTxn, FReturns, FInventory, FPayments, FChanges>>,
                     <<FTxn, FInventory, FChanges, FPayments>>,
                     <<FTxn, FReturnsNoRef, FInventory, FPayments, FChanges>>,
                     <<FVisits>>, <<FOrders, FReturns>>, <<FSales, FNoGrain>> },
         dims |-> { <<>>,
                    <<DDate("dim_date"), DProduct2, DStore2, DCustomer2, DPayment>>,
                    <<DProduct1, DStore1, DCustomer1>>,
                    <<DDate("dim_date"), DDate("dim_order_date"), DDate("dim_ship_date"),
                      DDate("dim_due_date"), DDate("dim_time"), DDate("dim_fiscal_date"),
                      DProduct1, DStore1, DCustomer1>>,
                    <<DProductSnow, DCategory, DBrand>>,
                    <<DDate("dim_date"), DNoKey>>,
                    <<DBadScd>> },
         rels |-> { <<>>,
                    Star("fact_sales") \o Star("fact_returns")
                        \o Star("fact_transaction_lines")
                        \o <<Rel("fact_ghost", "dim_nowhere", "many-to-one")>>,
                    <<Rel("fact_sales", "dim_product", "many-to-many"),
                      Rel("fact_transaction_lines", "dim_product", "many-to-many"),
                      Rel("fact_returns", "dim_date", "many-to-one")>> },
         bridges |-> { <<>>,
                       <<Br("bridge_sales_product", "fact_sales", "dim_product"),
                         Br("bridge_line_product", "fact_transaction_lines", "dim_product")>>,
                       <<Br("bridge_promo", "fact_ghost", "dim_nowhere")>> }]

\* the documents handed to parse_schema: every combination of the samples,
\* with the bridge_tables key present or (for an empty list) absent, one
\* document without its relationships key, and documents of three fact
\* tables that share one grain description
Documents ==
    { [fact_tables |-> f, dimension_tables |-> d, relationships |-> r, bridge_tables |-> b,
       missing |-> IF b = <<>> THEN {"bridge_tables"} ELSE {}] :
        f \in SampleTables.facts, d \in SampleTables.dims,
        r \in SampleTables.rels, b \in SampleTables.bridges }
    \cup { [fact_tables |-> f, dimension_tables |-> <<>>, relationships |-> <<>>,
            bridge_tables |-> <<>>, missing |-> {"relationships"}] :
            f \in {g \in SampleTables.facts : Len(g) = 1} }
    \cup { [fact_tables |-> SampleTables.weak, dimension_tables |-> d,
            relationships |-> <<>>, bridge_tables |-> <<>>, missing |-> {"bridge_tables"}] :
            d \in {e \in SampleTables.dims : Len(e) = 3} }

\* the sources handed to parse_schema: every document as a dict, and some as
\* a file, as JSON text, as text that is not JSON, and as an unsupported type
Sources ==
    { [kind |-> "dict", exists |-> FALSE, wellformed |-> TRUE, data |-> d] : d \in Documents }
    \cup { [kind |-> k, exists |-> x, wellformed |-> w, data |-> d] :
             k \in {"Path", "str", "bytes"}, x \in BOOLEAN, w \in BOOLEAN,
             d \in {e \in Documents : /\ Len(e.fact_tables) = 2
                                      /\ Len(e.dimension_tables) = 3
                                      /\ e.relationships = <<>>
                                      /\ e.bridge_tables = <<>>} }

(***************************************************************************)
(* evaluator/: the evaluation context and the six axes                     *)
(***************************************************************************)
EventType ==
    <<"sale", "return", "void", "correction", "inventory_adjustment",
      "inventory_snapshot", "product_change", "store_change">>

\* for x in s, for a set s of EventType members built in a process whose hash
\* key is `key`: the members come slot by slot of the set's hash table
\* (hash(member) is the hash of the member's name), members of one slot in
\* the order _compute_required_event_types adds them
set_iteration(key, s) ==
    SortSeq(SelectSeq(EventType, LAMBDA t : t \in s),
            LAMBDA a, b : StrHash(key, a) % 32 < StrHash(key, b) % 32)

\* EvaluationContext(config, events).__post_init__, in a process whose hash
\* key is `key` (it fixes the iteration order of the sets built here)
EvaluationContext(config, key) ==
    [config |-> config, hash_key |-> key,
     required_event_types |->
         {"sale"}
         \cup (IF config.returns.reference_policy # "never" THEN {"return"} ELSE {})
         \cup (IF config.transactions.voids_enabled THEN {"void"} ELSE {})
         \cup (IF config.time.backdated_corrections THEN {"correction"} ELSE {})
         \cup (IF config.inventory.tracked
                  /\ config.inventory.inventory_type \in {"transactional", "both"}
               THEN {"inventory_adjustment"} ELSE {})
         \cup (IF config.inventory.tracked
                  /\ config.inventory.inventory_type \in {"periodic_snapshot", "both"}
               THEN {"inventory_snapshot"} ELSE {})
         \cup (IF config.products.hierarchy_change_frequency # "none"
               THEN {"product_change"} ELSE {})
         \cup (IF config.stores.store_lifecycle_changes THEN {"store_change"} ELSE {}),
     dimensions_requiring_scd |->
         (IF config.products.hierarchy_change_frequency # "none" THEN {"product"} ELSE {})
         \cup (IF config.stores.store_lifecycle_changes THEN {"store"} ELSE {})
         \cup (IF config.customers.household_grouping THEN {"customer"} ELSE {})]

\* requires_scd matching the name as written, without lower-casing it
requires_scd_as_written(context, dimension_name) ==
    \E dim \in context.dimensions_requiring_scd : In(dim, dimension_name)

\* EvaluationContext.requires_scd
requires_scd(context, dimension_name) ==
    \E dim \in context.dimensions_requiring_scd : In(dim, lower(dimension_name))

\* SchemaSubmission.get_relationships_for_fact, get_dimensions_for_fact and
\* get_dimension_table (a list of the one table found; empty for None)
get_relationships_for_fact(submission, fact_name) ==
    SelectSeq(submission.relationships, LAMBDA r : r.fact_table = fact_name)
get_dimensions_for_fact(submission, fact_name) ==
    LET dim_names == {r.dimension_table :
                         r \in Elems(get_relationships_for_fact(submission, fact_name))}
    IN  SelectSeq(submission.dimension_tables, LAMBDA dt : dt.name \in dim_names)
get_dimension_table(submission, name) ==
    LET found == SelectSeq(submission.dimension_tables, LAMBDA dt : dt.name = name)
    IN  IF found = <<>> THEN <<>> ELSE <<Head(found)>>

\* the lower-cased grain columns, measures and dimension keys of a fact table
all_columns(fact) ==
    {lower(gc.name) : gc \in Elems(fact.grain_columns)}
    \cup {lower(m.name) : m \in Elems(fact.measures)}
    \cup {lower(dk) : dk \in Elems(fact.dimension_keys)}

\* a Deduction dataclass that also declares the feedback fields
DeductionFieldsWithFeedback ==
    {"points", "reason", "severity", "affected_elements", "violation_type",
     "concrete_example", "consequence", "fix_hint"}

\* the fields of the Deduction dataclass, and the keywords of the calls that
\* also pass the feedback fields
DeductionFields == {"points", "reason", "severity", "affected_elements"}
FeedbackFields ==
    DeductionFields \cup {"violation_type", "concrete_example", "consequence", "fix_hint"}

\* a call Deduction(points=, reason=, severity=, affected_elements=, ...) with
\* the keywords it passes; the reason keeps the rule's text and the names
\* formatted into it
Call(points, rule, args, severity, affected_elements, keywords) ==
    [points |-> points, reason |-> [rule |-> rule, args |-> args], severity |-> severity,
     affected_elements |-> affected_elements, keywords |-> keywords]

\* Deduction.__init__: the object a call with the dataclass's own keywords builds
Deduction(call) ==
    [points |-> call.points, reason |-> call.reason, severity |-> call.severity,
     affected_elements |-> call.affected_elements]

\* [f(x) for x in xs if cond] for one call
When(cond, call) == IF cond THEN <<call>> ELSE <<>>

\* the names of a list of tables
Names(tables) == [i \in DOMAIN tables |-> tables[i].name]

\* EventPreservationAxis: the Deduction calls of its three checks in order.
\* The loop over required_event_types follows the set's order, which the
\* process's hash key decides; every call it makes passes the feedback fields
event_preservation(context, submission) ==
    LET config == context.config
        facts == submission.fact_tables
        fact_names_lower == {lower(f.name) : f \in Elems(facts)}
        patterns(t) ==
            CASE t = "sale" -> {"sale", "transaction", "order"}
              [] t = "return" -> {"return", "refund"}
              [] t = "void" -> {"void", "cancel", "transaction"}
              [] t = "correction" -> {"correction", "adjustment", "transaction"}
              [] t = "inventory_adjustment" -> {"inventory", "stock"}
              [] t = "inventory_snapshot" -> {"inventory", "stock", "snapshot"}
              [] t = "product_change" -> {"product"}
              [] t = "store_change" -> {"store", "location"}
        coverage ==
            LET required == set_iteration(context.hash_key, context.required_event_types)
            IN  Concat([i \in DOMAIN required |->
                    When(~AnyIn(patterns(required[i]), fact_names_lower),
                         Call(20, "No fact table appears to support events", <<required[i]>>,
                              "critical", <<required[i]>>, FeedbackFields))])
        sale_facts == SelectSeq(facts,
                          LAMBDA f : AnyIn({"sale", "transaction", "order"}, {lower(f.name)}))
        sale_fact == Head(sale_facts)
        has_payment_dim ==
            \E r \in Elems(get_relationships_for_fact(submission, sale_fact.name)) :
                In("payment", lower(r.dimension_table))
        payment_facts == SelectSeq(facts, LAMBDA f : In("payment", lower(f.name)))
        fields ==
            IF sale_facts = <<>> THEN <<>>
            ELSE When(/\ ~AnyIn({"quantity", "qty"}, all_columns(sale_fact))
                      /\ config.transactions.grain # "receipt_level",
                      Call(10, "Sales fact appears to lack quantity measure for line items",
                           <<>>, "moderate", <<sale_fact.name>>, DeductionFields))
                 \o When(/\ config.transactions.multiple_payments
                         /\ ~has_payment_dim
                         /\ payment_facts = <<>>,
                         Call(15, "Multiple payments supported but no payment dimension or fact found",
                              <<>>, "major", <<sale_fact.name>>, DeductionFields))
        line_facts ==
            SelectSeq(facts, LAMBDA f : AnyIn({"line item", "line-item", "lineitem", "item"},
                                              {lower(f.grain_description)}))
        grain ==
            CASE config.transactions.grain = "line_item_level" ->
                   When(line_facts = <<>>,
                        Call(25, "Shop uses line-item grain but no line-item level fact table found",
                             <<>>, "critical", <<"grain">>, FeedbackFields))
              [] config.transactions.grain = "mixed" ->
                   When(line_facts = <<>>,
                        Call(15, "Shop uses mixed grain; consider supporting line-item detail when available",
                             <<>>, "moderate", <<"grain">>, DeductionFields))
              [] OTHER -> <<>>
    IN  coverage \o fields \o grain

\* GrainCorrectnessAxis: the Deduction calls of its four checks, fact by fact
grain_correctness(context, submission) ==
    LET declaration(fact) ==
            When(fact.grain_description = "" \/ Len(strip(fact.grain_description)) < 10,
                 Call(10, "Fact table has no or insufficient grain description",
                      <<fact.name>>, "moderate", <<fact.name>>, FeedbackFields))
        column(fact, gc) ==
            IF gc.references_dimension # None /\ gc.references_dimension # ""
            THEN When(gc.references_dimension \notin Elems(fact.dimension_keys),
                      Call(10, "Grain column references a dimension which is not in dimension_keys",
                           <<gc.name, gc.references_dimension>>, "moderate",
                           <<fact.name, gc.name>>, DeductionFields))
            ELSE When(~gc.is_degenerate,
                      Call(5, "Grain column should reference a dimension or be marked as degenerate",
                           <<gc.name>>, "minor", <<fact.name, gc.name>>, DeductionFields))
        columns(fact) ==
            Concat([i \in DOMAIN fact.grain_columns |-> column(fact, fact.grain_columns[i])])
        has_bridge(fact, rel) ==
            \E bt \in Elems(submission.bridge_tables) :
                bt.fact_table = fact.name /\ bt.dimension_table = rel.dimension_table
        fan_out(fact) ==
            LET rels == get_relationships_for_fact(submission, fact.name)
            IN  Concat([i \in DOMAIN rels |->
                    When(rels[i].cardinality = "many-to-many" /\ ~has_bridge(fact, rels[i]),
                         Call(20, "Many-to-many relationship without bridge table",
                              <<fact.name, rels[i].dimension_table>>, "major",
                              <<fact.name, rels[i].dimension_table>>, FeedbackFields))])
        mixed_indicators == <<"or", "sometimes", "depending", "either", "mixed">>
        grain_patterns == <<"transaction", "line item", "order", "event", "snapshot">>
        mixed(fact) ==
            LET grain_desc == lower(fact.grain_description)
                hits == SelectSeq(mixed_indicators, LAMBDA ind : In(ind, grain_desc))
                found_patterns == SelectSeq(grain_patterns, LAMBDA p : In(p, grain_desc))
            IN  When(hits # <<>>,
                     Call(25, "Fact grain description suggests mixed grain",
                          <<fact.name, IF hits = <<>> THEN "" ELSE Head(hits)>>, "critical",
                          <<fact.name>>, FeedbackFields))
                \o When(Len(found_patterns) > 1,
                        Call(15, "Fact grain mentions multiple concepts",
                             <<fact.name>> \o found_patterns, "major", <<fact.name>>,
                             DeductionFields))
        facts == submission.fact_tables
    IN  Concat([i \in DOMAIN facts |->
            declaration(facts[i]) \o columns(facts[i]) \o fan_out(facts[i]) \o mixed(facts[i])])

\* TemporalCorrectnessAxis: the Deduction calls of its four checks
temporal_correctness(context, submission) ==
    LET config == context.config
        facts == submission.fact_tables
        dims == submission.dimension_tables
        no_history == {"type_1", "none", "type_0"}
        scd_choice(dim) ==
            (IF requires_scd(context, dim.name)
             THEN When(dim.scd_strategy \in no_history,
                       Call(20, "Dimension has changing attributes but keeps no history",
                            <<dim.name, dim.scd_strategy>>, "major", <<dim.name>>,
                            DeductionFields))
             ELSE When(dim.scd_strategy = "type_2",
                       Call(5, "Dimension uses Type 2 SCD but may not require history tracking",
                            <<dim.name>>, "minor", <<dim.name>>, DeductionFields)))
            \o When(/\ dim.scd_strategy \in {"type_2", "type_6"}
                    /\ \A a \in Elems(dim.attributes) : ~a.scd_tracked,
                    Call(10, "Dimension uses SCD but no attributes are marked as SCD tracked",
                         <<dim.name, dim.scd_strategy>>, "moderate", <<dim.name>>,
                         DeductionFields))
        historical(fact) ==
            LET fdims == get_dimensions_for_fact(submission, fact.name)
            IN  Concat([i \in DOMAIN fdims |->
                    When(/\ requires_scd(context, fdims[i].name)
                         /\ fdims[i].scd_strategy \in no_history,
                         Call(15, "Historical queries may be incorrect due to a dimension lacking history",
                              <<fact.name, fdims[i].name>>, "major",
                              <<fact.name, fdims[i].name>>, DeductionFields))])
        problem_dims == Names(SelectSeq(dims, LAMBDA d : d.surrogate_key = ""))
        late_arriving ==
            When(problem_dims # <<>>,
                 Call(10, "Late-arriving events may cause issues with dimensions lacking surrogate keys",
                      problem_dims, "moderate", problem_dims, DeductionFields))
        backdated(fact) ==
            LET cols == all_columns(fact)
                has_event_timestamp ==
                    \E col \in cols : /\ In("event", col)
                                      /\ (In("time", col) \/ In("date", col) \/ In("ts", col))
                has_business_date ==
                    \E col \in cols : In("business", col) \/ In("effective", col)
            IN  When(~(has_event_timestamp \/ has_business_date),
                     Call(10, "Fact may not distinguish event time from business effective date",
                          <<fact.name>>, "moderate", <<fact.name>>, DeductionFields))
    IN  Concat([i \in DOMAIN dims |-> scd_choice(dims[i])])
        \o Concat([i \in DOMAIN facts |-> historical(facts[i])])
        \o (IF config.time.late_arriving_events THEN late_arriving ELSE <<>>)
        \o (IF config.time.backdated_corrections
            THEN Concat([i \in DOMAIN facts |-> backdated(facts[i])]) ELSE <<>>)

\* SemanticFaithfulnessAxis: the Deduction calls of its five checks
semantic_faithfulness(context, submission) ==
    LET config == context.config
        facts == submission.fact_tables
        dims == submission.dimension_tables
        fact_names == {lower(f.name) : f \in Elems(facts)}
        dim_names == {lower(d.name) : d \in Elems(dims)}
        transaction ==
            When(/\ config.transactions.multiple_payments
                 /\ ~AnyIn({"payment"}, fact_names \cup dim_names),
                 Call(15, "Multiple payments are supported but no payment-specific modeling found",
                      <<>>, "major", <<"payment">>, FeedbackFields))
            \o When(/\ config.transactions.voids_enabled
                    /\ ~\E f \in Elems(facts) : \/ In("void", lower(f.name))
                                                \/ In("status", lower(f.grain_description)),
                    Call(10, "Voids are supported but no void tracking mechanism found",
                         <<>>, "moderate", <<"void">>, DeductionFields))
        customer_dims == SelectSeq(dims, LAMBDA d : In("customer", lower(d.name)))
        household_attr ==
            \E d \in Elems(customer_dims) :
                \E a \in Elems(d.attributes) : In("household", lower(a.name))
        household_dim == AnyIn({"household"}, dim_names)
        customer ==
            IF config.customers.customer_id_reliability = "absent"
            THEN When(customer_dims # <<>>,
                      Call(5, "Customer dimension exists but shop has no customer IDs",
                           <<>>, "minor", Names(customer_dims), DeductionFields))
            ELSE When(customer_dims = <<>>,
                      Call(15, "Shop has customer IDs but no customer dimension found",
                           <<>>, "major", <<"customer">>, DeductionFields))
                 \o When(/\ config.customers.household_grouping
                         /\ customer_dims # <<>>
                         /\ ~household_attr /\ ~household_dim,
                         Call(10, "Household grouping is used but not modeled",
                              <<>>, "moderate", <<"household">>, DeductionFields))
        promo_dims == SelectSeq(dims, LAMBDA d : \/ In("promo", lower(d.name))
                                                 \/ In("discount", lower(d.name)))
        promo_bridge == \E bt \in Elems(submission.bridge_tables) : In("promo", lower(bt.name))
        promotion ==
            When(/\ config.promotions.promotions_per_line_item = "many"
                 /\ ~promo_bridge
                 /\ ~AnyIn({"promo"}, fact_names),
                 Call(15, "Multiple promotions per line item but no bridge/fact to support many-to-many",
                      <<>>, "major", <<"promotion">>, DeductionFields))
            \o When(/\ config.promotions.basket_level_promotions
                    /\ ~AnyIn({"basket", "order"}, fact_names)
                    /\ promo_dims = <<>>,
                    Call(10, "Basket-level promotions exist but may not be properly modeled",
                         <<>>, "moderate", <<"basket_promotion">>, DeductionFields))
        return_facts == SelectSeq(facts, LAMBDA f : \/ In("return", lower(f.name))
                                                    \/ In("refund", lower(f.name)))
        has_orig_ref(rf) ==
            \/ \E gc \in Elems(rf.grain_columns) : In("orig", lower(gc.name))
            \/ \E dk \in Elems(rf.dimension_keys) : In("orig", lower(dk))
        returns ==
            IF config.returns.reference_policy = "never" THEN <<>>
            ELSE When(return_facts = <<>>,
                      Call(15, "Returns are supported but no return fact table found",
                           <<>>, "major", <<"returns">>, FeedbackFields))
                 \o (IF config.returns.reference_policy = "always"
                     THEN Concat([i \in DOMAIN return_facts |->
                              When(~has_orig_ref(return_facts[i]),
                                   Call(10, "Return fact should reference original transaction",
                                        <<return_facts[i].name>>, "moderate",
                                        <<return_facts[i].name>>, DeductionFields))])
                     ELSE <<>>)
        inventory ==
            When(/\ config.inventory.tracked
                 /\ ~AnyIn({"inventory", "stock"}, fact_names),
                 Call(15, "Inventory is tracked but no inventory fact table found",
                      <<>>, "major", <<"inventory">>, DeductionFields))
    IN  transaction \o customer \o promotion \o returns \o inventory

\* StructuralOptimalityAxis: the Deduction calls of its four checks
structural_optimality(context, submission) ==
    LET config == context.config
        facts == submission.fact_tables
        dims == submission.dimension_tables
        snowflaked == SelectSeq(dims, LAMBDA d : d.parent_dimension # None)
        snowflake(dim) ==
            LET parent == get_dimension_table(submission, dim.parent_dimension)
            IN  IF parent = <<>> THEN <<>>
                ELSE When(Len(parent[1].attributes) <= 3,
                          Call(5, "Dimension snowflakes to a parent which has few attributes",
                               <<dim.name, parent[1].name>>, "minor",
                               <<dim.name, parent[1].name>>, DeductionFields))
        snowflaking ==
            Concat([i \in DOMAIN snowflaked |-> snowflake(snowflaked[i])])
            \o When(Len(snowflaked) > Len(dims) \div 2,
                    Call(10, "Excessive snowflaking may complicate queries unnecessarily",
                         <<>>, "moderate", Names(snowflaked), DeductionFields))
        dim_names == {lower(d.name) : d \in Elems(dims)}
        redundancy_patterns == <<<<"date", "time">>, <<"product", "item">>, <<"store", "location">>>>
        redundant ==
            Concat([i \in DOMAIN redundancy_patterns |->
                When(/\ AnyIn({redundancy_patterns[i][1]}, dim_names)
                     /\ AnyIn({redundancy_patterns[i][2]}, dim_names),
                     Call(5, "Dimensions might be redundant", redundancy_patterns[i], "minor",
                          redundancy_patterns[i], DeductionFields))])
        same_grain(fact) ==
            SelectSeq(facts, LAMBDA other :
                /\ fact.name # other.name
                /\ lower(fact.grain_description) = lower(other.grain_description))
        unnecessary(fact) ==
            When(fact.measures = <<>>,
                 Call(10, "Fact table has no measures (factless fact should be intentional)",
                      <<fact.name>>, "moderate", <<fact.name>>, DeductionFields))
            \o (IF same_grain(fact) = <<>> THEN <<>>
                ELSE <<Call(15, "Fact tables have identical grain - consider consolidating",
                            <<fact.name, Head(same_grain(fact)).name>>, "major",
                            <<fact.name, Head(same_grain(fact)).name>>, DeductionFields)>>)
        expected_facts ==
            1 + (IF config.returns.reference_policy # "never" THEN 1 ELSE 0)
              + (IF config.inventory.tracked THEN 1 ELSE 0)
        expected_dims == 4 + (IF config.promotions.basket_level_promotions THEN 1 ELSE 0)
        over_engineering ==
            When(Len(facts) > expected_facts * 2,
                 Call(10, "Schema has more fact tables than may be sufficient", <<>>,
                      "moderate", <<"fact_tables">>, FeedbackFields))
            \o When(Len(dims) > expected_dims * 2,
                    Call(5, "Schema has more dimensions than may be sufficient", <<>>,
                         "minor", <<"dimension_tables">>, DeductionFields))
    IN  snowflaking \o redundant \o Concat([i \in DOMAIN facts |-> unnecessary(facts[i])])
        \o over_engineering

\* QueryabilityAxis: the Deduction calls (bonuses) of its four checks
queryability(context, submission) ==
    LET facts == submission.fact_tables
        dims == submission.dimension_tables
        rels == submission.relationships
        date_dims == SelectSeq(dims, LAMBDA d : \/ In("date", lower(d.name))
                                                \/ In("time", lower(d.name)))
        rich_attrs == {"year", "quarter", "month", "week", "day", "fiscal"}
        found_rich(dim) ==
            Cardinality({attr \in rich_attrs :
                            AnyIn({attr}, {lower(a.name) : a \in Elems(dim.attributes)})})
        date_dimension ==
            IF date_dims = <<>> THEN <<>>
            ELSE <<Call(15, "Date/time dimension present for time-based analysis", <<>>,
                        "minor", Names(date_dims), DeductionFields)>>
                 \o Concat([i \in DOMAIN date_dims |->
                        When(found_rich(date_dims[i]) >= 3,
                             Call(10, "Date dimension has rich time hierarchy attributes",
                                  <<date_dims[i].name>>, "minor", <<date_dims[i].name>>,
                                  DeductionFields))])
        usage(name) == Cardinality({i \in DOMAIN rels : rels[i].dimension_table = name})
        first(i) == \A j \in 1..(i - 1) : rels[j].dimension_table # rels[i].dimension_table
        conformed ==
            LET picked == SelectSeq([i \in DOMAIN rels |-> i],
                                    LAMBDA i : first(i) /\ usage(rels[i].dimension_table) >= 2)
            IN  [k \in DOMAIN picked |-> rels[picked[k]].dimension_table]
        conformed_dimensions ==
            When(conformed # <<>>,
                 Call(15, "Conformed dimensions used across multiple facts", conformed,
                      "minor", conformed, DeductionFields))
        agg_facts ==
            SelectSeq(facts, LAMBDA f :
                AnyIn({"summary", "aggregate", "daily", "monthly", "snapshot"}, {lower(f.name)}))
        aggregate_tables ==
            When(agg_facts # <<>>,
                 Call(10, "Pre-aggregated tables may improve query performance",
                      Names(agg_facts), "minor", Names(agg_facts), DeductionFields))
        naming ==
            When(\A f \in Elems(facts) : lower(split0(f.name)) \in {"fact", "fct"},
                 Call(5, "Consistent fact table naming convention", <<>>, "minor",
                      <<"naming">>, DeductionFields))
            \o When(\A d \in Elems(dims) : lower(split0(d.name)) \in {"dim", "dimension"},
                    Call(5, "Consistent dimension table naming convention", <<>>, "minor",
                         <<"naming">>, DeductionFields))
            \o When(\A d \in Elems(dims) :
                        \E suffix \in {"_key", "_sk", "_id"} :
                            endswith(lower(d.surrogate_key), suffix),
                    Call(5, "Consistent surrogate key naming convention", <<>>, "minor",
                         <<"naming">>, DeductionFields))
    IN  date_dimension \o conformed_dimensions \o aggregate_tables \o naming

(***************************************************************************)
(* evaluator/engine.py: SchemaEvaluator                                    *)
(***************************************************************************)
\* evaluate() calls made on one evaluator
MaxCalls == 2

\* the axes in the order SchemaEvaluator.__init__ lists them; max_score of each
AxisNames ==
    <<"event_preservation", "grain_correctness", "temporal_correctness",
      "semantic_faithfulness", "structural_optimality", "queryability">>
max_score == 100

\* the Deduction calls an axis makes on a submission
AxisCalls(axis, context, submission) ==
    CASE axis = "event_preservation" -> event_preservation(context, submission)
      [] axis = "grain_correctness" -> grain_correctness(context, submission)
      [] axis = "temporal_correctness" -> temporal_correctness(context, submission)
      [] axis = "semantic_faithfulness" -> semantic_faithfulness(context, submission)
      [] axis = "structural_optimality" -> structural_optimality(context, submission)
      [] axis = "queryability" -> queryability(context, submission)

\* sum(d.points for d in deductions)
SumPoints(deductions) == SumSeq([i \in DOMAIN deductions |-> deductions[i].points])

\* an axis's score without the floor at zero
unfloored_score(axis, deductions) ==
    IF axis = "queryability" THEN Min(max_score, SumPoints(deductions))
    ELSE max_score - SumPoints(deductions)

\* an axis's score: what is left of max_score after the deductions, floored
\* at zero; for queryability the sum of the bonuses, capped at max_score
axis_score(axis, deductions) ==
    IF axis = "queryability" THEN Min(max_score, SumPoints(deductions))
    ELSE Max(0, max_score - SumPoints(deductions))

\* EvaluationAxis._generate_commentary and, for queryability,
\* _generate_bonus_commentary: the sentence chosen and the counts in it
generate_commentary(axis, deductions, score) ==
    LET critical == Len(SelectSeq(deductions, LAMBDA d : d.severity = "critical"))
        major == Len(SelectSeq(deductions, LAMBDA d : d.severity = "major"))
    IN  IF axis = "queryability"
        THEN <<CASE score >= 40 -> "Good queryability"
                 [] score >= 20 -> "Decent queryability"
                 [] score > 0 -> "Basic queryability"
                 [] OTHER -> "No specific queryability bonuses detected.", 0, 0>>
        ELSE CASE deductions = <<>> -> <<"No issues found.", 0, 0>>
               [] critical > 0 -> <<"Critical issues found", critical, major>>
               [] major > 0 -> <<"Significant issues found", major, 0>>
               [] OTHER -> <<"Minor issues found", Len(deductions), 0>>

\* AxisScore.percentage
percentage(score) == IF score.max_score > 0 THEN (score.score * 100) \div score.max_score ELSE 0

\* the deductions list an axis starts an evaluate() call with, as kept from
\* the evaluator's previous call
stale_deductions(e, axis) ==
    IF e.outcomes = <<>> \/ e.outcomes[Len(e.outcomes)].raised THEN <<>>
    ELSE LET scores == e.outcomes[Len(e.outcomes)].result.axis_scores
             k == CHOOSE i \in DOMAIN scores : scores[i].axis_name = axis
         IN  scores[k].deductions

\* the deductions list an axis starts an evaluate() call with: a new local list
initial_deductions(e, axis) == <<>>

NoScore == [axis_name |-> "", score |-> 0, max_score |-> 0, deductions |-> <<>>,
            commentary |-> <<"", 0, 0>>]

\* axis.evaluate(submission) for the evaluator e: the AxisScore, or raised
\* when a Deduction call passes a keyword the dataclass does not have (TypeError)
axis_evaluate(e, axis) ==
    LET calls == AxisCalls(axis, e.context, e.submission)
    IN  IF \E i \in DOMAIN calls : ~(calls[i].keywords \subseteq DeductionFields)
        THEN [raised |-> TRUE, score |-> NoScore]
        ELSE LET deductions == initial_deductions(e, axis)
                                   \o [i \in DOMAIN calls |-> Deduction(calls[i])]
                 score == axis_score(axis, deductions)
             IN  [raised |-> FALSE,
                  score |-> [axis_name |-> axis, score |-> score, max_score |-> max_score,
                             deductions |-> deductions,
                             commentary |-> generate_commentary(axis, deductions, score)]]

\* the (axis name, reason) pairs of the deductions of a severity, axis by axis
Issues(axis_scores, severity) ==
    Concat([i \in DOMAIN axis_scores |->
        LET ds == SelectSeq(axis_scores[i].deductions, LAMBDA d : d.severity = severity)
        IN  [k \in DOMAIN ds |-> [axis |-> axis_scores[i].axis_name, reason |-> ds[k].reason]]])

\* SchemaEvaluator._generate_critique: the overview sentence, the critical
\* and major issues, the strengths and the schema summary counts
generate_critique(axis_scores, submission) ==
    LET total == SumSeq([i \in DOMAIN axis_scores |-> axis_scores[i].score])
        maxes == SumSeq([i \in DOMAIN axis_scores |-> axis_scores[i].max_score])
        strong == SelectSeq(axis_scores, LAMBDA s : percentage(s) >= 80)
    IN  [overview |-> CASE total * 100 >= 80 * maxes -> "strong"
                        [] total * 100 >= 60 * maxes -> "reasonable"
                        [] total * 100 >= 40 * maxes -> "significant issues"
                        [] OTHER -> "critical deficiencies",
         critical_issues |-> Issues(axis_scores, "critical"),
         major_issues |-> Issues(axis_scores, "major"),
         strengths |-> [k \in DOMAIN strong |-> <<strong[k].axis_name, percentage(strong[k])>>],
         summary |-> <<Len(submission.fact_tables), Len(submission.dimension_tables),
                       Len(submission.relationships), Len(submission.bridge_tables)>>]

\* the axes in the order evaluate() ran them
sorted_axes_in_evaluation_order(axis_scores) == axis_scores

\* sorted(axis_scores.items(), key=percentage): a stable sort
RECURSIVE sorted_axes(_)
sorted_axes(axis_scores) ==
    IF axis_scores = <<>> THEN <<>>
    ELSE LET n == Len(axis_scores)
             rest == sorted_axes(SubSeq(axis_scores, 1, n - 1))
             last == axis_scores[n]
             k == Cardinality({i \in DOMAIN rest : percentage(rest[i]) <= percentage(last)})
         IN  SubSeq(rest, 1, k) \o <<last>> \o SubSeq(rest, k + 1, Len(rest))

\* SchemaEvaluator._generate_recommendations
generate_recommendations(config, axis_scores) ==
    LET general(text) == [kind |-> "general", axis |-> "", reason |-> [rule |-> text, args |-> <<>>]]
        per_axis(s) ==
            LET critical_deds == SelectSeq(s.deductions, LAMBDA d : d.severity = "critical")
                major_deds == SelectSeq(s.deductions, LAMBDA d : d.severity = "major")
            IN  IF percentage(s) >= 70 THEN <<>>
                ELSE IF critical_deds # <<>>
                THEN <<[kind |-> "Fix critical issue", axis |-> s.axis_name,
                        reason |-> critical_deds[1].reason]>>
                ELSE IF major_deds # <<>>
                THEN <<[kind |-> "Address", axis |-> s.axis_name,
                        reason |-> major_deds[1].reason]>>
                ELSE <<>>
        ordered == sorted_axes(axis_scores)
        recommendations ==
            Concat([i \in DOMAIN ordered |-> per_axis(ordered[i])])
            \o When(config.time.backdated_corrections,
                    general("Ensure fact tables distinguish event_timestamp from business_effective_date"))
            \o When(config.transactions.grain = "mixed",
                    general("Consider separate fact tables for line-item vs aggregated transactions"))
    IN  SubSeq(recommendations, 1, Min(5, Len(recommendations)))

NoResult ==
    [total_score |-> 0, max_possible_score |-> 0, axis_scores |-> <<>>,
     critique |-> [overview |-> "", critical_issues |-> <<>>, major_issues |-> <<>>,
                   strengths |-> <<>>, summary |-> <<0, 0, 0, 0>>],
     recommendations |-> <<>>]

\* the EvaluationResult evaluate() builds after its loop over the axes
EvaluationResult(e) ==
    [total_score |-> SumSeq([i \in DOMAIN e.axis_scores |-> e.axis_scores[i].score]),
     max_possible_score |-> SumSeq([i \in DOMAIN e.axis_scores |-> e.axis_scores[i].max_score]),
     axis_scores |-> e.axis_scores,
     critique |-> generate_critique(e.axis_scores, e.submission),
     recommendations |-> generate_recommendations(e.config, e.axis_scores)]

\* evaluate()'s loop from the i-th axis on, for the evaluator e, and the
\* result built after it; a TypeError in an axis ends the call
RECURSIVE evaluate_axes(_, _)
evaluate_axes(e, i) ==
    IF i > Len(AxisNames) THEN [raised |-> FALSE, result |-> EvaluationResult(e)]
    ELSE LET r == axis_evaluate(e, AxisNames[i])
         IN  IF r.raised THEN [raised |-> TRUE, result |-> NoResult]
             ELSE evaluate_axes([e EXCEPT !.axis_scores = Append(@, r.score)], i + 1)

\* SchemaEvaluator(config, events).evaluate(submission) on a new evaluator in
\* a process whose hash key is `key`: the outcome of the whole call
evaluate(key, config, submission) ==
    evaluate_axes([config |-> config, context |-> EvaluationContext(config, key),
                   submission |-> submission, outcomes |-> <<>>, axis_scores |-> <<>>], 1)

(***************************************************************************)
(* evaluator/feedback.py: the actionable feedback built from a result      *)
(***************************************************************************)
NoFeedback ==
    [raised |-> FALSE, error |-> "", violations |-> <<>>, by_category |-> <<>>,
     fix_priority |-> <<>>, summary |-> <<>>]

\* _generate_fix_priority(violations): the first violation of each
\* violation type, in the order given, until five entries are kept
generate_fix_priority(violations) ==
    LET RECURSIVE walk(_, _, _)
        walk(vs, seen_types, priority) ==
            IF vs = <<>> \/ Len(priority) >= 5 THEN priority
            ELSE LET v == Head(vs)
                     impact == CASE v.severity = "critical" -> "(breaks queries)"
                                 [] v.severity = "major" -> "(significant data issues)"
                                 [] OTHER -> ""
                     tables == IF v.affected_tables = <<>> THEN <<"schema">>
                               ELSE SubSeq(v.affected_tables, 1, Min(2, Len(v.affected_tables)))
                 IN  IF v.violation_type \in seen_types
                     THEN walk(Tail(vs), seen_types, priority)
                     ELSE walk(Tail(vs), seen_types \cup {v.violation_type},
                              Append(priority, [fix_hint |-> v.fix_hint, tables |-> tables,
                                                impact |-> impact, violation |-> v]))
    IN  walk(violations, {}, <<>>)

\* _generate_summary(by_category): the count and the type of every category
\* in the dict's order, or "No violations found"
generate_summary(by_category) ==
    LET parts == SelectSeq(by_category, LAMBDA c : c.violations # <<>>)
    IN  IF parts = <<>> THEN <<"No violations found">>
        ELSE [i \in DOMAIN parts |-> <<Len(parts[i].violations), parts[i].violation_type>>]

\* ActionableFeedback.from_result(result). ConcreteViolation.from_deduction
\* reads deduction.violation_type, .concrete_example, .consequence and
\* .fix_hint: an AttributeError for an attribute the Deduction dataclass
\* does not declare. by_category is a dict, kept in insertion order
from_result(result) ==
    LET AXIS_TO_VIOLATION_TYPE(axis) ==
            CASE axis = "grain_correctness" -> "grain_violation"
              [] axis = "temporal_correctness" -> "temporal_lie"
              [] axis = "semantic_faithfulness" -> "semantic_mismatch"
              [] axis = "structural_optimality" -> "over_modeling"
              [] axis = "event_preservation" -> "data_loss"
              [] axis = "queryability" -> "under_modeling"
              [] OTHER -> "semantic_mismatch"
        from_deduction(deduction, axis_name) ==
            [violation_type |-> AXIS_TO_VIOLATION_TYPE(axis_name),
             what_went_wrong |-> deduction.reason,
             fix_hint |-> <<"generated fix hint", axis_name, deduction.reason.rule>>,
             affected_tables |-> deduction.affected_elements,
             severity |-> deduction.severity,
             points_deducted |-> deduction.points,
             axis_name |-> axis_name]
        collected ==
            Concat([i \in DOMAIN result.axis_scores |->
                       [j \in DOMAIN result.axis_scores[i].deductions |->
                           from_deduction(result.axis_scores[i].deductions[j],
                                          result.axis_scores[i].axis_name)]])
        first_of_type ==
            SelectSeq([k \in DOMAIN collected |-> k],
                      LAMBDA k : \A m \in 1..(k - 1) :
                          collected[m].violation_type # collected[k].violation_type)
        by_category ==
            [i \in DOMAIN first_of_type |->
                LET type == collected[first_of_type[i]].violation_type
                IN  [violation_type |-> type,
                     violations |-> SelectSeq(collected, LAMBDA v : v.violation_type = type)]]
        severity_order(v) == CASE v.severity = "critical" -> 0
                               [] v.severity = "major" -> 1
                               [] v.severity = "moderate" -> 2
                               [] OTHER -> 3
        violations ==
            SortSeq(collected,
                    LAMBDA a, b : \/ severity_order(a) < severity_order(b)
                                  \/ /\ severity_order(a) = severity_order(b)
                                     /\ a.points_deducted > b.points_deducted)
    IN  IF collected # <<>> /\ "violation_type" \notin DeductionFields
        THEN [NoFeedback EXCEPT !.raised = TRUE, !.error = "AttributeError"]
        ELSE [raised |-> FALSE, error |-> "", violations |-> violations,
              by_category |-> by_category,
              fix_priority |-> generate_fix_priority(violations),
              summary |-> generate_summary(by_category)]

NoContext ==
    [config |-> BaseConfig, hash_key |-> 0, required_event_types |-> {},
     dimensions_requiring_scd |-> {}]

\* a valid configuration is loaded and a source is about to be parsed; no
\* SchemaEvaluator exists yet
InitEval ==
    /\ adversary = "none"
    /\ hashKey = [p \in Procs |-> 0]
    /\ gen = IdleGen
    /\ rngs = IdleRngs
    /\ drawn = IdleDrawn
    /\ sim = [p \in Procs |-> Idle]
    /\ \E source \in Sources :
          doc = [pc |-> "source", source |-> source, error |-> "", submission |-> NoSubmission]
    /\ \E config \in {c \in SimConfigs : CrossFieldInvariants(c)} :
          ev = [pc |-> "none", config |-> config, context |-> NoContext,
                submission |-> NoSubmission, given |-> NoContext, axis |-> 0,
                axis_scores |-> <<>>, outcomes |-> <<>>, axes_run |-> 0,
                feedback |-> NoFeedback]

\* schema = parse_schema(source)
ParseSchema ==
    /\ doc.pc = "source"
    /\ LET r == parse_schema(doc.source)
       IN  doc' = [doc EXCEPT !.pc = IF r.raised THEN "raised" ELSE "parsed",
                              !.error = r.error, !.submission = r.submission]
    /\ UNCHANGED <<hashKey, adversary, gen, rngs, drawn, sim, ev>>

\* evaluator = SchemaEvaluator(config, events), for the parsed submission;
\* given keeps a copy of the context as constructed
NewEvaluator ==
    /\ doc.pc = "parsed"
    /\ ev.pc = "none"
    /\ ev' = [ev EXCEPT !.pc = "ready", !.context = EvaluationContext(ev.config, hashKey[1]),
                        !.given = EvaluationContext(ev.config, hashKey[1]),
                        !.submission = doc.submission]
    /\ UNCHANGED <<hashKey, adversary, gen, rngs, drawn, sim, doc>>

\* evaluator.evaluate(submission) is entered: axis_scores = {}
BeginEvaluate ==
    /\ ev.pc \in {"ready", "returned", "raised"}
    /\ Len(ev.outcomes) < MaxCalls
    /\ ev' = [ev EXCEPT !.pc = "axes", !.axis = 1, !.axis_scores = <<>>]
    /\ UNCHANGED <<hashKey, adversary, gen, rngs, drawn, sim, doc>>

\* one turn of evaluate()'s loop: score = axis.evaluate(submission);
\* axis_scores[axis.name] = score. A TypeError leaves evaluate()
EvaluateAxis ==
    /\ ev.pc = "axes"
    /\ ev.axis <= Len(AxisNames)
    /\ LET r == axis_evaluate(ev, AxisNames[ev.axis])
       IN  ev' = IF r.raised
                 THEN [ev EXCEPT !.pc = "raised", !.axes_run = @ + 1,
                                 !.outcomes = Append(@, [raised |-> TRUE, result |-> NoResult])]
                 ELSE [ev EXCEPT !.axis = @ + 1, !.axes_run = @ + 1,
                                 !.axis_scores = Append(@, r.score)]
    /\ UNCHANGED <<hashKey, adversary, gen, rngs, drawn, sim, doc>>

\* the rest of evaluate(): totals, critique, recommendations, return
ReturnResult ==
    /\ ev.pc = "axes"
    /\ ev.axis > Len(AxisNames)
    /\ ev' = [ev EXCEPT !.pc = "returned",
                        !.outcomes = Append(@, [raised |-> FALSE,
                                                result |-> EvaluationResult(ev)])]
    /\ UNCHANGED <<hashKey, adversary, gen, rngs, drawn, sim, doc>>

\* feedback = ActionableFeedback.from_result(result), for the result the
\* last evaluate() call returned
ActionableFeedback ==
    /\ ev.pc = "returned"
    /\ ev' = [ev EXCEPT !.pc = "reported",
                        !.feedback = from_result(ev.outcomes[Len(ev.outcomes)].result)]
    /\ UNCHANGED <<hashKey, adversary, gen, rngs, drawn, sim, doc>>

NextEval ==
    \/ ParseSchema \/ NewEvaluator \/ BeginEvaluate \/ EvaluateAxis \/ ReturnResult
    \/ ActionableFeedback

SpecEval == InitEval /\ [][NextEval]_vars

\* the evaluate() calls that returned
Returned == {i \in DOMAIN ev.outcomes : ~ev.outcomes[i].raised}

\* C7: every evaluate() call on a parsed submission returns a result holding
\* all six axis scores; none raises
C7_AlwaysCompleteResult ==
    /\ ev.pc # "raised"
    /\ \A i \in DOMAIN ev.outcomes :
          /\ ~ev.outcomes[i].raised
          /\ Len(ev.outcomes[i].result.axis_scores) = Len(AxisNames)

\* C8: every axis score computed lies in 0..max_score, and a returned result
\* has six axis scores, total_score their sum and max_possible_score the sum
\* of their maxima
C8_Bounded ==
    /\ \A k \in DOMAIN ev.axis_scores :
          0 <= ev.axis_scores[k].score /\ ev.axis_scores[k].score <= ev.axis_scores[k].max_score
    /\ \A i \in Returned :
          LET r == ev.outcomes[i].result
          IN  /\ Len(r.axis_scores) = Len(AxisNames)
              /\ \A k \in DOMAIN r.axis_scores :
                    /\ r.axis_scores[k].axis_name = AxisNames[k]
                    /\ 0 <= r.axis_scores[k].score
                    /\ r.axis_scores[k].score <= r.axis_scores[k].max_score
              /\ r.total_score = SumSeq([k \in DOMAIN r.axis_scores |-> r.axis_scores[k].score])
              /\ r.max_possible_score =
                     SumSeq([k \in DOMAIN r.axis_scores |-> r.axis_scores[k].max_score])

\* C8 witness: a returned result in which a deduction axis lost more than
\* max_score points and scores 0, and the queryability bonuses exceed
\* max_score and score max_score
C8_Witness ==
    \E i \in Returned :
        LET s == ev.outcomes[i].result.axis_scores
        IN  /\ \E k \in 1..5 : SumPoints(s[k].deductions) > max_score /\ s[k].score = 0
            /\ SumPoints(s[6].deductions) > max_score /\ s[6].score = max_score

\* C9: two evaluate() calls of one evaluator on one submission have equal
\* outcomes, and the configuration, the submission and the context are as
\* they were when the evaluator was built
C9_IdempotentAndPure ==
    /\ Len(ev.outcomes) >= 2 => ev.outcomes[1] = ev.outcomes[2]
    /\ ev.pc # "none" =>
          /\ ev.context = ev.given
          /\ ev.context.config = ev.config
          /\ ev.submission = doc.submission

\* C9 witness: two calls returned, with deductions and recommendations
C9_Witness ==
    /\ Len(ev.outcomes) = 2
    /\ Returned = {1, 2}
    /\ ev.outcomes[2].result.recommendations # <<>>
    /\ \E k \in 1..5 : ev.outcomes[2].result.axis_scores[k].deductions # <<>>
    /\ ev.context.dimensions_requiring_scd # {}

\* a document with no fact table, a fact table without grain columns or a
\* dimension table without natural key
FailsClosed(data) ==
    \/ data.fact_tables = <<>>
    \/ \E f \in Elems(data.fact_tables) : f.grain_columns = <<>>
    \/ \E d \in Elems(data.dimension_tables) : d.natural_key = <<>>

\* C10: such a document is never parsed into a submission: parse_schema
\* raises, no evaluator gets it and no axis runs
C10_FailClosed ==
    FailsClosed(doc.source.data) =>
        /\ doc.pc \in {"source", "raised"}
        /\ doc.submission = NoSubmission
        /\ ev.pc = "none"
        /\ ev.axes_run = 0

\* C10 witness: parse_schema rejected a document whose only defect is a
\* dimension table with an empty natural_key
C10_Witness ==
    /\ doc.pc = "raised"
    /\ doc.error = "ValidationError"
    /\ doc.source.data.fact_tables # <<>>
    /\ \A f \in Elems(doc.source.data.fact_tables) : f.grain_columns # <<>>
    /\ \E d \in Elems(doc.source.data.dimension_tables) : d.natural_key = <<>>
    /\ doc.source.data.missing \subseteq {"bridge_tables"}

(***************************************************************************)
(* evaluator/axes: the scenarios of the evaluation rules                   *)
(***************************************************************************)
\* the grain axis has run, or evaluate() ended before its score was kept
GrainAxisDone == ev.pc = "raised" \/ (ev.pc \in {"axes", "returned", "reported"} /\ ev.axis > 2)

\* a fact table whose grain description holds a mixed-grain indicator word
MixedGrainIndicated(fact) ==
    AnyIn({"or", "sometimes", "depending", "either", "mixed"}, {lower(fact.grain_description)})

\* C11: with transactions.grain = mixed, once the Grain Correctness axis has
\* run on a submission, every fact table whose grain description holds a
\* mixed-grain indicator word has a critical deduction of at least 25 points
\* from the mixed-grain rule in that axis's score
C11_MixedGrainDeduction ==
    (ev.config.transactions.grain = "mixed" /\ GrainAxisDone) =>
        \A f \in Elems(ev.submission.fact_tables) :
            MixedGrainIndicated(f) =>
                /\ Len(ev.axis_scores) >= 2
                /\ \E d \in Elems(ev.axis_scores[2].deductions) :
                      /\ d.severity = "critical"
                      /\ d.points >= 25
                      /\ d.reason.rule = "Fact grain description suggests mixed grain"
                      /\ f.name \in Elems(d.affected_elements)

\* original or orig is in the name of a grain column or a dimension key
HasOriginalRef(fact) ==
    AnyIn({"original", "orig"},
          {lower(gc.name) : gc \in Elems(fact.grain_columns)}
              \cup {lower(dk) : dk \in Elems(fact.dimension_keys)})

\* C12: with returns.reference_policy = sometimes, once the Semantic
\* Faithfulness axis has run, a fact table named fact_returns without an
\* original-transaction column has a major deduction naming it in the score
\* of the Grain Correctness or the Semantic Faithfulness axis
C12_ReturnsReferenceDeduction ==
    (ev.config.returns.reference_policy = "sometimes" /\ Len(ev.axis_scores) >= 4) =>
        \A f \in Elems(ev.submission.fact_tables) :
            (f.name = "fact_returns" /\ ~HasOriginalRef(f)) =>
                \E k \in {2, 4} :
                    \E d \in Elems(ev.axis_scores[k].deductions) :
                        d.severity = "major" /\ f.name \in Elems(d.affected_elements)

\* the dimension keywords the configuration makes history-required
HistoryRequired(config) ==
    {k \in {"product", "store", "customer"} :
        \/ k = "product" /\ config.products.hierarchy_change_frequency # "none"
        \/ k = "store" /\ config.stores.store_lifecycle_changes
        \/ k = "customer" /\ config.customers.household_grouping}

\* the submitted dimensions that keep no history although the configuration
\* requires it of them
UnhistoriedDimensions ==
    {d \in Elems(ev.submission.dimension_tables) :
        /\ \E k \in HistoryRequired(ev.config) : In(k, lower(d.name))
        /\ d.scd_strategy \in {"type_0", "type_1", "none"}}

\* C13: once the Temporal Correctness axis has run, every submitted dimension
\* whose lower-cased name contains a history-required keyword and whose
\* scd_strategy is type_0, type_1 or none has a major deduction naming it in
\* that axis's score
C13_HistoryRequiredDeduction ==
    Len(ev.axis_scores) >= 3 =>
        \A dim \in UnhistoriedDimensions :
            \E d \in Elems(ev.axis_scores[3].deductions) :
                /\ d.severity = "major"
                /\ d.affected_elements = <<dim.name>>
                /\ d.reason.args = <<dim.name, dim.scd_strategy>>

\* C13 witness: frequent hierarchy changes and store lifecycle changes, with
\* dim_product and Dim_Store on type_1, and the axis has run
C13_Witness ==
    /\ Len(ev.axis_scores) >= 3
    /\ ev.config.products.hierarchy_change_frequency = "frequent"
    /\ {d.name : d \in UnhistoriedDimensions} = {"dim_product", "Dim_Store", "dim_customer"}
    /\ \E d \in Elems(ev.axis_scores[3].deductions) :
          d.severity = "major" /\ d.affected_elements = <<"Dim_Store">>

(***************************************************************************)
(* events/emitters: properties of the emitted events                       *)
(***************************************************************************)
\* the processes whose EventGenerator exists
Started == {p \in Procs : sim[p].pc # "idle"}

\* the events of a type among the events process p has emitted so far
EventsOf(p, type) == SelectSeq(sim[p].events, LAMBDA e : e.event_type = type)

\* the transaction whose sale has the event id, in a generator state
TransactionOf(s, event_id) ==
    CHOOSE t \in 1..Len(s.transaction_history) :
        s.transaction_history[t].event_id = event_id

\* C14: no two void events carry the same original_event_id; a step that
\* emits a void event voids a transaction that was not in the voided set and
\* adds it to the set, and the voided set never shrinks
C14_VoidedAtMostOnce ==
    [][\A p \in Started :
          LET s == sim[p]
              t == sim'[p]
              voids == SelectSeq(t.events, LAMBDA e : e.event_type = "void")
              emitted == SubSeq(t.events, Len(s.events) + 1, Len(t.events))
          IN  /\ s.voided_events \subseteq t.voided_events
              /\ \A i, j \in DOMAIN voids :
                    voids[i].original_event_id = voids[j].original_event_id => i = j
              /\ \A k \in DOMAIN emitted :
                    emitted[k].event_type = "void" =>
                        LET txn == TransactionOf(s, emitted[k].original_event_id)
                        IN  /\ txn \notin s.voided_events
                            /\ t.voided_events = s.voided_events \cup {txn}]_vars

\* C14 witness: two transactions have been voided while others have not
C14_Witness ==
    /\ Len(EventsOf(1, "void")) >= 2
    /\ Cardinality(sim[1].voided_events) >= 2
    /\ Len(sim[1].transaction_history) > Cardinality(sim[1].voided_events)

\* the return event r of process p names a sale of the transaction history
\* that was recorded before the return and was not voided before it
ReferencesLiveSale(p, r) ==
    LET history == sim[p].transaction_history
        t == r.original_transaction_id
    IN  /\ t \in 1..Len(history)
        /\ history[t].event_id < r.event_id
        /\ \A v \in Elems(EventsOf(p, "void")) :
              v.original_event_id = history[t].event_id => v.event_id > r.event_id

\* C15: with reference_policy = always every return event names a sale of
\* the history that was not voided when the return was emitted; with
\* sometimes a return event names such a sale or none; with never no return
\* event names a sale, and the return emitter still takes its turn in the
\* ticks of a run that recorded sales
C15_ReturnReferencePolicy ==
    \A p \in Started :
        LET policy == sim[p].config.returns.reference_policy
            returns == Elems(EventsOf(p, "return"))
        IN  /\ policy = "always" => \A r \in returns : ReferencesLiveSale(p, r)
            /\ policy = "sometimes" =>
                  \A r \in returns :
                      r.original_transaction_id = 0 \/ ReferencesLiveSale(p, r)
            /\ policy = "never" =>
                  /\ \A r \in returns : r.original_transaction_id = 0
                  /\ (sim[p].pc = "done" /\ sim[p].transaction_history # <<>>)
                        => "returns" \in Elems(sim[p].emitters)

\* C16: the event types the simulator is able to emit for a configuration
\* (those its emitters and generate() construct) are the Evaluation
\* Context's required_event_types, and no event of another type is emitted
C16_SameEventTypes ==
    \A p \in Started :
        LET s == sim[p]
            config == s.config
            present == Elems(s.emitters)
            can_emit ==
                {"sale"}
                \cup (IF "returns" \in present THEN {"return"} ELSE {})
                \cup (IF "voids" \in present THEN {"void"} ELSE {})
                \cup (IF "corrections" \in present THEN {"correction"} ELSE {})
                \cup (IF "inventory" \in present
                         /\ config.inventory.inventory_type \in {"transactional", "both"}
                      THEN {"inventory_adjustment"} ELSE {})
                \cup (IF "inventory" \in present
                         /\ config.inventory.inventory_type \in {"periodic_snapshot", "both"}
                      THEN {"inventory_snapshot"} ELSE {})
                \cup (IF config.products.hierarchy_change_frequency # "none"
                      THEN {"product_change"} ELSE {})
            required == EvaluationContext(config, hashKey[p]).required_event_types
        IN  /\ {e.event_type : e \in Elems(s.events)} \subseteq can_emit
            /\ can_emit = required

\* the payments of a recorded sale: one payment without multiple_payments,
\* one to three with it, summing to the sale's net total
PaymentsSplitTotal(config, sale) ==
    /\ Len(sale.payments) \in (IF config.transactions.multiple_payments THEN 1..3 ELSE {1})
    /\ SumSeq(sale.payments) = total_cents(sale.line_items)

\* C17: payment generation never fails, and every sale generated has one
\* payment (one to three with multiple_payments) whose amounts sum to the
\* net total of its line items
C17_PaymentSplit ==
    \A p \in Started :
        /\ sim[p].pc # "error"
        /\ \A sale \in Elems(sim[p].transaction_history) :
              PaymentsSplitTotal(sim[p].config, sale)

\* the sale the correction event c of process p corrects is in the
\* transaction history and was not voided before the correction
CorrectsLiveSale(p, c) ==
    /\ \E sale \in Elems(sim[p].transaction_history) :
          sale.event_id = c.original_event_id /\ sale.event_id < c.event_id
    /\ \A v \in Elems(EventsOf(p, "void")) :
          v.original_event_id = c.original_event_id => v.event_id > c.event_id

\* the field correction fc targets a field of the sale: its customer, its
\* employee, the quantity or unit price of one of its line items, or an
\* added promotion code
TargetsSaleField(sale, fc) ==
    \/ fc.field \in {"customer_id", "employee_id", "promotion_code_added"}
    \/ /\ fc.field \in {"quantity", "unit_price_cents"}
       /\ \E li \in Elems(sale.line_items) : li.line_number = fc.line_number

\* the field corrections of every correction event target fields of the
\* sale it corrects, and that sale was live when the correction was emitted
CorrectionsTargetLiveSale ==
    \A p \in Started : \A c \in Elems(EventsOf(p, "correction")) :
        /\ CorrectsLiveSale(p, c)
        /\ \A fc \in Elems(c.field_corrections) :
              TargetsSaleField(sim[p].transaction_history[
                                   TransactionOf(sim[p], c.original_event_id)], fc)

\* C18: every correction event carries one or two field corrections, each
\* targeting the customer, the employee, a line item's quantity or unit price
\* or an added promotion code of a sale that was in the transaction history
\* and not voided when the correction was emitted
C18_CorrectionFields ==
    /\ CorrectionsTargetLiveSale
    /\ \A p \in Started : \A c \in Elems(EventsOf(p, "correction")) :
          Len(c.field_corrections) \in 1..2

\* the return line li has the unit price of a line with its SKU in the sale
\* the return event r names, in the generator state s
PricedFromOriginal(s, r, li) ==
    /\ r.original_transaction_id # 0
    /\ \E orig_item \in Elems(s.transaction_history[r.original_transaction_id].line_items) :
          orig_item.sku = li.sku /\ orig_item.unit_price_cents = li.unit_price_cents

\* the return line li has the current price of its product in the state s
PricedFromCurrent(s, li) ==
    li.unit_price_cents = s.products[li.sku].current_price_cents

\* the return event r emitted from the generator state s is priced as the
\* pricing policy says, and its tag says how its lines were priced
RefundPriced(s, r) ==
    LET pricing == s.config.returns.pricing_policy
        lines == Elems(r.line_items)
    IN  /\ (pricing = "original_price" /\ r.original_transaction_id # 0)
              => \A li \in lines : PricedFromOriginal(s, r, li)
        /\ pricing = "current_price" => \A li \in lines : PricedFromCurrent(s, li)
        /\ r.price_determination =
              (CASE pricing = "original_price" -> "original"
                 [] pricing = "current_price" -> "current"
                 [] OTHER -> "override")
        /\ r.price_determination = "original" => \A li \in lines : PricedFromOriginal(s, r, li)
        /\ r.price_determination = "current" => \A li \in lines : PricedFromCurrent(s, li)

\* C19: a step that emits a return event prices its lines by the pricing
\* policy: with original_price and a referenced sale, at the unit price of a
\* line with the same SKU in that sale; with current_price, at the product's
\* current price; and the price_determination tag says how the lines were
\* priced
C19_RefundPricing ==
    [][\A p \in Started :
          LET emitted == SubSeq(sim'[p].events, Len(sim[p].events) + 1, Len(sim'[p].events))
          IN  \A k \in DOMAIN emitted :
                  emitted[k].event_type = "return" => RefundPriced(sim[p], emitted[k])]_vars

\* the generator state s snapshots its inventory at the end of the day
SnapshotsDaily(s) ==
    /\ s.config.inventory.tracked
    /\ s.config.inventory.inventory_type \in {"periodic_snapshot", "both"}

\* the snapshot events of the business date among the events of s
SnapshotBatch(s, date) ==
    SelectSeq(s.events, LAMBDA e : /\ e.event_type = "inventory_snapshot"
                                   /\ e.business_effective_date = date)

\* the snapshot events of the date are one batch: emitted at one tick whose
\* hour is 22 or later, one event for each store and sku of the inventory map
OneBatch(s, date) ==
    LET batch == SnapshotBatch(s, date)
    IN  /\ \A e \in Elems(batch) :
              /\ e.event_timestamp = batch[1].event_timestamp
              /\ (e.event_timestamp % 1440) \div 60 >= 22
              /\ e.event_timestamp \div 1440 = date
        /\ Len(batch) = Cardinality(DOMAIN s.inventory)
        /\ \A pair \in DOMAIN s.inventory :
              \E k \in DOMAIN batch : <<batch[k].store_id, batch[k].sku>> = pair

\* C20: with inventory tracked and inventory_type periodic_snapshot or both,
\* every business day simulated to its close has exactly one snapshot batch,
\* the day in progress has at most one; a batch is emitted at a tick whose
\* hour is 22 or later and holds one snapshot event for each store and sku of
\* the inventory map, with the quantity held when it is emitted
C20_DailySnapshot ==
    [][\A p \in Started :
          LET s == sim[p]
              t == sim'[p]
              emitted == SubSeq(t.events, Len(s.events) + 1, Len(t.events))
          IN  SnapshotsDaily(t) =>
                  /\ \A date \in 0..(t.current_business_date - 1) :
                        SnapshotBatch(t, date) # <<>> /\ OneBatch(t, date)
                  /\ SnapshotBatch(t, t.current_business_date) # <<>>
                        => OneBatch(t, t.current_business_date)
                  /\ \A k \in DOMAIN emitted :
                        emitted[k].event_type = "inventory_snapshot" =>
                            /\ s.pc = "inventory"
                            /\ emitted[k].quantity_on_hand =
                                  s.inventory[<<emitted[k].store_id, emitted[k].sku>>]]_vars

\* C20 witness: a run that snapshots daily closed two business days, each
\* with its batch, and the quantities of the two batches differ
C20_Witness ==
    /\ sim[1].pc = "done"
    /\ SnapshotsDaily(sim[1])
    /\ sim[1].current_business_date = 2
    /\ OneBatch(sim[1], 0) /\ OneBatch(sim[1], 1)
    /\ \E k \in DOMAIN SnapshotBatch(sim[1], 0) :
          SnapshotBatch(sim[1], 0)[k].quantity_on_hand
              # SnapshotBatch(sim[1], 1)[k].quantity_on_hand

\* the rule of the backdated-correction check
BackdatedRule == "Fact may not distinguish event time from business effective date"

\* the fact has an event-time column among its grain columns, measures and
\* dimension keys
HasEventTimeColumn(fact) ==
    \E col \in all_columns(fact) :
        In("event", col) /\ (In("time", col) \/ In("date", col) \/ In("ts", col))

\* the fact has a business-effective-date column among them
HasBusinessDateColumn(fact) ==
    \E col \in all_columns(fact) : In("business", col) \/ In("effective", col)

\* the deductions of the backdated-correction check in the temporal axis's score
BackdatedDeductions ==
    {d \in Elems(ev.axis_scores[3].deductions) : d.reason.rule = BackdatedRule}

\* C21: once the Temporal Correctness axis has run, with backdated_corrections
\* enabled every submitted fact table that does not have both an event-time
\* column and a business-effective-date column has a deduction of the
\* backdated-correction check naming it; with the toggle disabled the axis
\* has no deduction of that check
C21_BackdatedDeduction ==
    Len(ev.axis_scores) >= 3 =>
        IF ev.config.time.backdated_corrections
        THEN \A f \in Elems(ev.submission.fact_tables) :
                 ~(HasEventTimeColumn(f) /\ HasBusinessDateColumn(f)) =>
                     \E d \in BackdatedDeductions : d.affected_elements = <<f.name>>
        ELSE BackdatedDeductions = {}

BackdatedAdvice == "Ensure fact tables distinguish event_timestamp from business_effective_date"
MixedGrainAdvice == "Consider separate fact tables for line-item vs aggregated transactions"

\* the recommendations of a result that quote an axis's deduction
AxisRecommendations(result) ==
    SelectSeq(result.recommendations, LAMBDA r : r.kind # "general")

\* the axis score of a result by the axis's name
ScoreOf(result, axis) ==
    result.axis_scores[CHOOSE i \in DOMAIN result.axis_scores :
                           result.axis_scores[i].axis_name = axis]

\* the recommendation r quotes the first critical deduction of its axis, or
\* else its first major deduction, and the axis scores below 70%
QuotesMostSevere(result, r) ==
    LET s == ScoreOf(result, r.axis)
        critical == SelectSeq(s.deductions, LAMBDA d : d.severity = "critical")
        major == SelectSeq(s.deductions, LAMBDA d : d.severity = "major")
    IN  /\ percentage(s) < 70
        /\ IF critical # <<>> THEN r.kind = "Fix critical issue" /\ r.reason = critical[1].reason
           ELSE major # <<>> /\ r.kind = "Address" /\ r.reason = major[1].reason

\* the recommendations of a result are at most five, and those that quote
\* an axis come in ascending order of axis percentage, each quoting the
\* axis's most severe deduction
RecommendationsOrdered(result) ==
    LET recs == AxisRecommendations(result)
    IN  /\ Len(result.recommendations) <= 5
        /\ \A i \in DOMAIN recs : QuotesMostSevere(result, recs[i])
        /\ \A i, j \in DOMAIN recs :
              i < j => percentage(ScoreOf(result, recs[i].axis))
                          <= percentage(ScoreOf(result, recs[j].axis))

\* the text is among the general recommendations of the result
Advises(result, text) ==
    \E r \in Elems(result.recommendations) : r.kind = "general" /\ r.reason.rule = text

\* C23: every result evaluate() returns has at most 5 recommendations, those
\* quoting an axis come from axes below 70% in ascending order of percentage
\* and quote the axis's first critical or else first major deduction, and
\* the list holds the event_timestamp advice whenever backdated_corrections
\* is enabled and the separate-fact-tables advice whenever the grain is mixed
C23_Recommendations ==
    \A i \in Returned :
        LET result == ev.outcomes[i].result
        IN  /\ RecommendationsOrdered(result)
            /\ ev.config.time.backdated_corrections => Advises(result, BackdatedAdvice)
            /\ ev.config.transactions.grain = "mixed" => Advises(result, MixedGrainAdvice)

\* C23 (amended): every result evaluate() returns has at most 5
\* recommendations, those quoting an axis come from axes below 70% in
\* ascending order of percentage and quote the axis's first critical or else
\* first major deduction, and the configuration-driven advice follows them
\* as far as the five places allow: the event_timestamp advice is in the
\* list when backdated_corrections is enabled and fewer than five
\* recommendations quote an axis, the separate-fact-tables advice when the
\* grain is mixed and fewer than five recommendations precede it
C23_RecommendationsCapped ==
    \A i \in Returned :
        LET result == ev.outcomes[i].result
            before == Len(AxisRecommendations(result))
            backdated == ev.config.time.backdated_corrections
        IN  /\ RecommendationsOrdered(result)
            /\ (backdated /\ before < 5) => Advises(result, BackdatedAdvice)
            /\ (ev.config.transactions.grain = "mixed"
                  /\ before + (IF backdated THEN 1 ELSE 0) < 5)
                   => Advises(result, MixedGrainAdvice)
            /\ (~backdated) => ~Advises(result, BackdatedAdvice)
            /\ ev.config.transactions.grain # "mixed" => ~Advises(result, MixedGrainAdvice)

\* a returned result whose four axis recommendations and event_timestamp
\* advice fill the five places, so that the separate-fact-tables advice of
\* a mixed-grain shop is cut
C23_Witness ==
    \E i \in Returned :
        LET result == ev.outcomes[i].result
        IN  /\ ev.config.transactions.grain = "mixed"
            /\ ev.config.time.backdated_corrections
            /\ Len(AxisRecommendations(result)) = 4
            /\ Len(result.recommendations) = 5
            /\ Advises(result, BackdatedAdvice)
            /\ ~Advises(result, MixedGrainAdvice)

\* the rank of a violation in the order from_result sorts by
SeverityRank(v) ==
    CASE v.severity = "critical" -> 0 [] v.severity = "major" -> 1
      [] v.severity = "moderate" -> 2 [] OTHER -> 3

\* a comes no later than b in the order (severity rank, then higher points)
InPriorityOrder(a, b) ==
    \/ SeverityRank(a) < SeverityRank(b)
    \/ SeverityRank(a) = SeverityRank(b) /\ a.points_deducted >= b.points_deducted

\* the feedback holds the violations in priority order and a fix_priority of
\* at most five entries, one per violation type, in that order, each the
\* first violation of its type
FixPriorityOrdered(feedback) ==
    LET vs == feedback.violations
        fp == feedback.fix_priority
    IN  /\ \A i, j \in DOMAIN vs : i < j => InPriorityOrder(vs[i], vs[j])
        /\ Len(fp) <= 5
        /\ \A i, j \in DOMAIN fp :
              i < j => /\ fp[i].violation.violation_type # fp[j].violation.violation_type
                       /\ InPriorityOrder(fp[i].violation, fp[j].violation)
        /\ \A i \in DOMAIN fp :
              \E k \in DOMAIN vs :
                  /\ vs[k] = fp[i].violation
                  /\ \A m \in 1..(k - 1) : vs[m].violation_type # vs[k].violation_type

\* C24: for every result evaluate() returned, ActionableFeedback.from_result
\* gives a feedback whose violations are ordered by severity rank and then
\* by higher points, and whose fix_priority keeps the first violation of
\* each violation type in that order: at most 5 entries, at most one per type
C24_FixPriority ==
    ev.pc = "reported" =>
        /\ ~ev.feedback.raised
        /\ Len(ev.feedback.violations)
              = SumSeq([i \in DOMAIN ev.axis_scores |-> Len(ev.axis_scores[i].deductions)])
        /\ FixPriorityOrdered(ev.feedback)

\* the violation was built from a deduction of the Queryability axis
FromBonus(v) == v.axis_name = "queryability"

\* the five deduction axes of the result took no points
NoPenalty(axis_scores) ==
    \A i \in DOMAIN axis_scores :
        axis_scores[i].axis_name # "queryability" => axis_scores[i].deductions = <<>>

\* C30: for every result evaluate() returned, from_result gives a feedback
\* that reports no good-practice bonus of the Queryability axis as a
\* violation, neither in violations, in by_category nor in fix_priority, and
\* whose summary is "No violations found" when the five deduction axes took
\* no points
C30_BonusesNotViolations ==
    ev.pc = "reported" =>
        /\ ~ev.feedback.raised
        /\ \A v \in Elems(ev.feedback.violations) : ~FromBonus(v)
        /\ \A c \in Elems(ev.feedback.by_category) :
              \A v \in Elems(c.violations) : ~FromBonus(v)
        /\ \A f \in Elems(ev.feedback.fix_priority) : ~FromBonus(f.violation)
        /\ NoPenalty(ev.axis_scores) => ev.feedback.summary = <<"No violations found">>

\* the event at position i of the log refers to a sale at an earlier position
\* of the log: a void or a correction by the sale's event id, a return with a
\* reference (a transaction id other than 0) by the sale's transaction id
RefersBack(log, i) ==
    LET e == log[i]
        EarlierSale(match(_)) ==
            \E j \in 1..(i - 1) : log[j].event_type = "sale" /\ match(log[j])
    IN  CASE e.event_type \in {"void", "correction"} ->
                 LET same_event(sale) == sale.event_id = e.original_event_id
                 IN  EarlierSale(same_event)
          [] e.event_type = "return" /\ e.original_transaction_id # 0 ->
                 LET same_transaction(sale) == sale.transaction_id = e.original_transaction_id
                 IN  EarlierSale(same_transaction)
          [] OTHER -> TRUE

\* C25: in the log generate() returns, sorted by time and trimmed, every
\* void's and every correction's original_event_id is the event id of a sale
\* at an earlier position of the log, and every return's non-null
\* original_transaction_id is the transaction id of a sale at an earlier
\* position: the trim leaves no dangling reference
C25_ReferentialIntegrity ==
    \A p \in Procs :
        sim[p].pc = "done" => \A i \in DOMAIN sim[p].log : RefersBack(sim[p].log, i)

\* C25 witness: a run that emitted a void or a correction returns a log that
\* the trim shortened and that holds a return with a reference
C25_Witness ==
    /\ sim[1].pc = "done"
    /\ Len(sim[1].log) < Len(sim[1].events)
    /\ \E i \in DOMAIN sim[1].events : sim[1].events[i].event_type \in {"void", "correction"}
    /\ \E i \in DOMAIN sim[1].log :
          /\ sim[1].log[i].event_type = "return"
          /\ sim[1].log[i].original_transaction_id # 0

\* the calendar date (days since 2024-01-01) of a timestamp in minutes
DateOf(timestamp) == timestamp \div 1440

\* the sale a correction event of a generator state corrects
CorrectedSale(s, c) == s.transaction_history[TransactionOf(s, c.original_event_id)]

\* C26: every correction event's business_effective_date is not earlier than
\* the original sale's business_effective_date and not later than the
\* calendar date of the correction's own event_timestamp
C26_CorrectionBackdated ==
    \A p \in Started :
        \A c \in Elems(EventsOf(p, "correction")) :
            /\ CorrectedSale(sim[p], c).business_effective_date <= c.business_effective_date
            /\ c.business_effective_date <= DateOf(c.event_timestamp)

\* the units of a SKU among line items
UnitsOf(line_items, sku) ==
    SumSeq([i \in DOMAIN line_items |->
               IF line_items[i].sku = sku THEN line_items[i].quantity ELSE 0])

\* the units of a SKU that the returns referencing transaction txn_id, and a
\* void of it, have added back to inventory in a generator state
UnitsRestored(s, txn_id, sku) ==
    LET returns == SelectSeq(s.events, LAMBDA e : /\ e.event_type = "return"
                                                   /\ e.original_transaction_id = txn_id)
    IN  SumSeq([i \in DOMAIN returns |-> UnitsOf(returns[i].line_items, sku)])
        + (IF txn_id \in s.voided_events
           THEN UnitsOf(s.transaction_history[txn_id].line_items, sku) ELSE 0)

\* C27: for every non-aggregated sale and each SKU on it, the units added
\* back to inventory by all the returns that reference the sale and by a
\* void of the sale never exceed the units the sale removed
C27_NeverOverRestored ==
    \A p \in Started :
        \A txn_id \in DOMAIN sim[p].transaction_history :
            LET sale == sim[p].transaction_history[txn_id]
            IN  ~sale.is_aggregated =>
                    \A li \in Elems(sale.line_items) :
                        UnitsRestored(sim[p], txn_id, li.sku) <= UnitsOf(sale.line_items, li.sku)

(***************************************************************************)
(* events/emitters/sales.py: one sale against a table of promotions        *)
(***************************************************************************)
\* the promotion tables a world may hold: line-level promotions for every
\* product, of each discount type and of a middle and the top discount value
PromotionTables ==
    LET promo(code, type, value) ==
            [promotion_code |-> code, discount_type |-> type, discount_value |-> value,
             applicable_skus |-> {}, all_skus |-> TRUE, is_basket_level |-> FALSE,
             is_stackable |-> FALSE]
        kinds == {"percent", "fixed", "bogo"} \X {35, 50}
    IN  { [code \in 1..NumPromotions |-> promo(code, k[code][1], k[code][2])] :
            k \in [1..NumPromotions -> kinds] }

\* the configurations whose sales are tried: at most one promotion per line,
\* and many promotions with manual overrides
LineConfigs ==
    { [BaseConfig EXCEPT !.transactions.grain = g, !.promotions.promotions_per_line_item = m,
                         !.transactions.manual_overrides = o] :
        g \in {"line_item_level", "mixed"}, m \in {"one", "many"}, o \in BOOLEAN }

\* process 1 holds an EventGenerator whose world has one of the promotion
\* tables and whose sales generator has made some draws; its first tick is
\* at the sales emitter
InitLine ==
    /\ adversary = "none"
    /\ hashKey = [p \in Procs |-> 0]
    /\ gen = IdleGen
    /\ rngs = IdleRngs
    /\ drawn = IdleDrawn
    /\ \E config \in LineConfigs, seed \in Seeds, table \in PromotionTables,
          start \in 0..MaxDraws :
          sim = [p \in Procs |->
                   IF p = 1
                   THEN [EventGenerator(config, seed, 0) EXCEPT
                           !.promotions = table, !.pos.sales = start, !.pc = "sales",
                           !.num_events = 1, !.simulation_days = 1]
                   ELSE Idle]
    /\ ev = Idle
    /\ doc = Idle

NextLine == SaleEmit(1)

SpecLine == InitLine /\ [][NextLine]_vars

\* C28: on every line item of every sale emitted, the discount lies between
\* 0 and unit_price_cents * quantity, and so the sale's net total and each
\* of its payment amounts are not negative
C28_DiscountWithinPrice ==
    \A p \in Started :
        \A sale \in Elems(EventsOf(p, "sale")) :
            /\ \A li \in Elems(sale.line_items) :
                  /\ 0 <= li.discount_cents
                  /\ li.discount_cents <= li.unit_price_cents * li.quantity
            /\ total_cents(sale.line_items) >= 0
            /\ \A amount \in Elems(sale.payments) : amount >= 0

\* the hour of day of a timestamp in minutes
HourOf(timestamp) == (timestamp % 1440) \div 60

\* the clock of a generator state: the calendar date of the timestamp is the
\* business date, the hour is between 9 and 22, one business date has passed
\* per simulated day, and every sale emitted is dated on the calendar date of
\* its timestamp
ClockInvariant(s) ==
    /\ DateOf(s.current_timestamp) = s.current_business_date
    /\ HourOf(s.current_timestamp) \in 9..22
    /\ s.current_business_date = s.days_simulated + (IF s.pc = "changes" THEN 1 ELSE 0)
    /\ \A sale \in Elems(SelectSeq(s.events, LAMBDA e : e.event_type = "sale")) :
          sale.business_effective_date = DateOf(sale.event_timestamp)

====
